---- MODULE Spec2Model ----
(***************************************************************************)
(* unidom: branch-and-bound domination solvers (fixed_order, DD, MDD).     *)
(*                                                                         *)
(* The model follows the C++ sources operation by operation.  A solver     *)
(* process is a state machine: Solve performs the initial conditioning of  *)
(* solve(), the recursive FindDominatingSet is unfolded over an explicit   *)
(* call stack (Enter / Descend / Ascend / Return), Finalize closes the     *)
(* output.  The build is the NDEBUG build: an assert whose condition is    *)
(* false is recorded in `failed` and execution continues as the code does. *)
(* An out-of-bounds array access or a read of an uninitialised array slot  *)
(* is undefined behaviour: the process stops in pc = "undefined" and       *)
(* nothing is modelled past that point.                                    *)
(***************************************************************************)
EXTENDS Integers, Sequences, FiniteSets, TLC

(***************************************************************************)
(* Program constants                                                       *)
(***************************************************************************)
MAX_VERTS == 1024
INVALID_VERTEX == 2147483647
INVALID_MDD == 2147483647
\* (unsigned int)(-1) in the code, 2^32 - 1; TLC's integers end at 2^31 - 1,
\* which like it is above every depth 0..n
INVALID_DEPTH == 2147483647

(***************************************************************************)
(* Bounds of the model                                                     *)
(***************************************************************************)
MaxN == 3          \* every simple graph on 1..MaxN vertices is an input
MaxForce == 1      \* force_in and force_out hold at most MaxForce vertices each
MaxMod == 2        \* resmod_mod ranges over 1..MaxMod
MaxDepth == 1      \* resmod_depth ranges over 0..MaxDepth (and INVALID_DEPTH)
MaxLong == 5       \* the paths and cycles on up to MaxLong vertices are inputs
MaxLower == 1      \* -l ranges over 0..MaxLower
MaxUpper == 3      \* -u ranges over 1..MaxUpper (and MAX_VERTS)
MaxTerminate == 2  \* an output proxy throws at its 1st..MaxTerminate-th process_set
MaxForceIn == 2    \* force_in holds up to MaxForceIn vertices in SpecConditioned
MaxIOVerts == 2    \* vertices of a graph written and read back
MaxIOLen == 2      \* entries in all its adjacency lists together
MaxSegments == 2   \* options (with their sub-arguments) on a command line
MaxRenumber == 3   \* vertices of a graph that is renumbered
MaxSetVerts == 3   \* vertices a VertexSet is operated on with

(***************************************************************************)
(* Sequence helpers                                                        *)
(***************************************************************************)
Range(s) == {s[k] : k \in 1..Len(s)}

RECURSIVE Reverse(_)
Reverse(s) == IF s = <<>> THEN <<>> ELSE Append(Reverse(Tail(s)), Head(s))

SetMin(S) == CHOOSE x \in S : \A y \in S : x <= y

SetMax(S) == CHOOSE x \in S : \A y \in S : x >= y

RECURSIVE AscendingSeq(_)
AscendingSeq(S) ==
    IF S = {} THEN <<>>
    ELSE LET m == SetMin(S) IN <<m>> \o AscendingSeq(S \ {m})

IndexOf(s, x) == CHOOSE k \in 1..Len(s) : s[k] = x

RemoveAt(s, k) == SubSeq(s, 1, k - 1) \o SubSeq(s, k + 1, Len(s))

InsertAt(s, k, x) == SubSeq(s, 1, k - 1) \o <<x>> \o SubSeq(s, k, Len(s))

(***************************************************************************)
(* Graph (graph.hpp): n vertices, one neighbour list per vertex            *)
(***************************************************************************)
Verts(g) == 0..(g.n - 1)

deg(g, v) == Len(g.neighbours[v])

\* Vertex::add_neighbour_simple: append unless already present
add_neighbour_simple(lst, u) ==
    IF u \in Range(lst) THEN lst ELSE Append(lst, u)

\* add_loops: every vertex becomes its own neighbour
add_loops(g) ==
    [g EXCEPT !.neighbours = [v \in Verts(g) |-> add_neighbour_simple(g.neighbours[v], v)]]

\* std::stable_sort with cmp a > b: insertion of each element behind every
\* element that is >= it keeps equal elements in their original order
InsertDescending(rest, x) ==
    InsertAt(rest, Cardinality({k \in 1..Len(rest) : rest[k] >= x}) + 1, x)

RECURSIVE StableSortDescending(_)
StableSortDescending(lst) ==
    IF lst = <<>> THEN <<>>
    ELSE InsertDescending(StableSortDescending(SubSeq(lst, 1, Len(lst) - 1)), lst[Len(lst)])

sort_neighbours_descending(g) ==
    [g EXCEPT !.neighbours = [v \in Verts(g) |-> StableSortDescending(g.neighbours[v])]]

\* an input graph as basic_input reads it: neighbour lists of a simple
\* undirected graph given by its edge set E (pairs <<a, b>> with a < b)
InputGraph(n, E) ==
    [n |-> n,
     neighbours |-> [v \in 0..(n - 1) |->
        AscendingSeq({u \in 0..(n - 1) : <<u, v>> \in E \/ <<v, u>> \in E})]]

Pairs(n) == {<<a, b>> \in (0..(n - 1)) \X (0..(n - 1)) : a < b}

(***************************************************************************)
(* VertexSet (vertex_set.hpp): size, set_elements[0..size-1], set_indices  *)
(***************************************************************************)
VSsize(s) == Len(s.set_elements)

reset_empty(n) ==
    [set_elements |-> <<>>, set_indices |-> [v \in 0..(n - 1) |-> MAX_VERTS]]

\* reset_full(k) that also forgets the vertices from k on
reset_full_cleared(s, k) ==
    [set_elements |-> [m \in 1..k |-> m - 1],
     set_indices |-> [v \in DOMAIN s.set_indices |-> IF v < k THEN v ELSE MAX_VERTS]]

\* reset_full(k) on the set s: the indices of the vertices from k on are
\* left as they are
reset_full_on(s, k) ==
    [set_elements |-> [m \in 1..k |-> m - 1],
     set_indices |-> [v \in DOMAIN s.set_indices |-> IF v < k THEN v ELSE s.set_indices[v]]]

\* reset_full(k) on a freshly constructed set over vertices 0..n-1
reset_full(n, k) ==
    [set_elements |-> [m \in 1..k |-> m - 1],
     set_indices |-> [v \in 0..(n - 1) |-> IF v < k THEN v ELSE MAX_VERTS]]

contains(s, v) == s.set_indices[v] < VSsize(s)

VSadd(s, v) ==
    [set_elements |-> Append(s.set_elements, v),
     set_indices |-> [s.set_indices EXCEPT ![v] = VSsize(s)]]

\* remove_pop taking the first element of the iteration instead of the last
remove_pop_first(s, v) ==
    [set_elements |-> SubSeq(s.set_elements, 2, VSsize(s)),
     set_indices |-> [s.set_indices EXCEPT ![v] = MAX_VERTS + 1]]

\* remove_pop: --size and the index of v is invalidated, whatever v is
remove_pop(s, v) ==
    [set_elements |-> SubSeq(s.set_elements, 1, VSsize(s) - 1),
     set_indices |-> [s.set_indices EXCEPT ![v] = MAX_VERTS + 1]]

\* remove: the last element takes the place of v
VSremove(s, v) ==
    LET idx == s.set_indices[v]
        last == s.set_elements[VSsize(s)]
        moved == [s.set_elements EXCEPT ![idx + 1] = last]
        ind1 == [s.set_indices EXCEPT ![last] = idx]
    IN [set_elements |-> SubSeq(moved, 1, VSsize(s) - 1),
        set_indices |-> [ind1 EXCEPT ![v] = MAX_VERTS + 1]]


(***************************************************************************)
(* DegreePQ (bbt_degreepq.hpp).  nodes[r] is the rank node of index r; a   *)
(* vertex's degree_node is such an index.  The constructor sets            *)
(* nodes[i].deg = i for i < n only: the node of index n keeps the deg = 0  *)
(* of PQNode().  HeadTail is the sentinel of the rank list, Null a null    *)
(* pointer.                                                                *)
(***************************************************************************)
HeadTail == -1
Null == -2

NodeDeg(q, r) ==
    IF r = HeadTail THEN INVALID_VERTEX ELSE IF r < q.n THEN r ELSE 0

ranked_degree(q, v) == NodeDeg(q, q.degree_node[v])

get_min_degree(q) == NodeDeg(q, q.next[HeadTail])

get_max_degree(q) == NodeDeg(q, q.prev[HeadTail])

\* the state of the constructor before its increment loop
DegreePQ_empty(n, heavy) ==
    [n |-> n,
     is_heavy |-> heavy,
     degree_node |-> [v \in 0..(n - 1) |-> 0],
     is_fixed |-> [v \in 0..(n - 1) |-> FALSE],
     is_dominated |-> [v \in 0..(n - 1) |-> FALSE],
     count |-> [r \in 0..n |-> IF r = 0 THEN n ELSE 0],
     unfixed_count |-> [r \in 0..n |-> IF r = 0 THEN n ELSE 0],
     undominated_count |-> [r \in 0..n |-> IF r = 0 THEN n ELSE 0],
     next |-> [r \in -1..n |-> IF r = HeadTail THEN 0 ELSE IF r = 0 THEN HeadTail ELSE Null],
     prev |-> [r \in -1..n |-> IF r = HeadTail THEN 0 ELSE IF r = 0 THEN HeadTail ELSE Null],
     undominated |-> [r \in 0..n |-> IF r = 0 THEN [m \in 1..n |-> m - 1] ELSE <<>>],
     failed |-> {},
     ub |-> FALSE]

\* an assertion of DegreePQBase
DPQ_check(q, cond, msg) == IF cond THEN q ELSE [q EXCEPT !.failed = @ \cup {msg}]

\* splice_out: v leaves the undominated list it is linked into; a vertex
\* linked into no list has null next and prev, which splice_out dereferences
splice_out(q, v) ==
    LET lists == {r \in DOMAIN q.undominated : v \in Range(q.undominated[r])}
    IN IF lists = {} THEN [q EXCEPT !.ub = TRUE]
       ELSE LET r == CHOOSE r \in lists : TRUE
            IN [q EXCEPT !.undominated[r] = RemoveAt(@, IndexOf(@, v))]

\* splice_in: v is appended to the list of its degree node
splice_in(q, v) ==
    [q EXCEPT !.undominated[q.degree_node[v]] = Append(@, v)]

\* increment and decrement, `if (new_node->count == 0)`: the node `new`
\* enters the rank list behind (up) or before (down) the node `old`
link_new(q, old, new, up) ==
    IF q.count[new] # 0 THEN q
    ELSE IF up
         THEN [q EXCEPT !.next = [@ EXCEPT ![new] = q.next[old], ![old] = new],
                        !.prev = [@ EXCEPT ![new] = old, ![q.next[old]] = new]]
         ELSE [q EXCEPT !.next = [@ EXCEPT ![new] = old, ![q.prev[old]] = new],
                        !.prev = [@ EXCEPT ![new] = q.prev[old], ![old] = new]]

\* increment and decrement: v changes its degree node, and the counters of
\* the two nodes follow
move(q, v, old, new) ==
    [q EXCEPT !.degree_node[v] = new,
              !.count = [@ EXCEPT ![new] = @ + 1, ![old] = @ - 1],
              !.undominated_count =
                  IF q.is_heavy /\ ~q.is_dominated[v]
                  THEN [q.undominated_count EXCEPT ![old] = @ - 1, ![new] = @ + 1]
                  ELSE q.undominated_count,
              !.unfixed_count =
                  IF q.is_fixed[v] THEN q.unfixed_count
                  ELSE [q.unfixed_count EXCEPT ![old] = @ - 1, ![new] = @ + 1]]

\* increment and decrement, `if (is_heavy)`: an undominated v moves to the
\* undominated list of its new degree node
resplice(q, v) ==
    IF q.is_heavy /\ ~q.is_dominated[v] THEN splice_in(splice_out(q, v), v) ELSE q

\* increment and decrement, `if (old_node->count == 0)`: the node `old`
\* leaves the rank list
unlink_old(q, old, new, up) ==
    IF q.count[old] # 0 THEN q
    ELSE IF up
         THEN [q EXCEPT !.prev = [@ EXCEPT ![new] = q.prev[old], ![old] = Null],
                        !.next = [@ EXCEPT ![q.prev[old]] = new, ![old] = Null]]
         ELSE [q EXCEPT !.next = [@ EXCEPT ![new] = q.next[old], ![old] = Null],
                        !.prev = [@ EXCEPT ![q.next[old]] = new, ![old] = Null]]

\* the body shared by increment and decrement once old and new are known;
\* `up` tells increment from decrement
Relocate(q, v, old, new, up) ==
    unlink_old(resplice(move(link_new(q, old, new, up), v, old, new), v), old, new, up)

increment(q, v) ==
    LET old == q.degree_node[v]
        old_deg == NodeDeg(q, old)
    IN IF q.ub THEN q
       ELSE Relocate(DPQ_check(q, old_deg >= 0 /\ old_deg < q.n - 2,
                               "increment: old_deg >= 0 && old_deg < n-2"),
                     v, old, old_deg + 1, TRUE)

\* decrement from a node whose deg is 0 addresses nodes[-1]
decrement(q, v) ==
    LET old == q.degree_node[v]
        old_deg == NodeDeg(q, old)
    IN IF q.ub THEN q
       ELSE IF old_deg - 1 < 0
            THEN [DPQ_check(q, FALSE, "decrement: old_deg >= 1 && old_deg < n-1")
                     EXCEPT !.ub = TRUE]
            ELSE Relocate(DPQ_check(q, old_deg >= 1 /\ old_deg < q.n - 1,
                                    "decrement: old_deg >= 1 && old_deg < n-1"),
                          v, old, old_deg - 1, FALSE)

DPQ_add_candidate(q, v) ==
    IF q.ub THEN q
    ELSE [DPQ_check(q, q.is_fixed[v], "add_candidate: is_fixed")
             EXCEPT !.unfixed_count[q.degree_node[v]] = @ + 1, !.is_fixed[v] = FALSE]

DPQ_remove_candidate(q, v) ==
    IF q.ub THEN q
    ELSE [DPQ_check(q, q.unfixed_count[q.degree_node[v]] > 0 /\ ~q.is_fixed[v],
                    "remove_candidate: unfixed_count > 0 && !is_fixed")
             EXCEPT !.unfixed_count[q.degree_node[v]] = @ - 1, !.is_fixed[v] = TRUE]

DPQ_dominate(q, v) ==
    IF q.ub THEN q
    ELSE IF q.is_heavy
         THEN splice_out([DPQ_check(q, ~q.is_dominated[v], "dominate: !is_dominated")
                             EXCEPT !.is_dominated[v] = TRUE,
                                    !.undominated_count[q.degree_node[v]] = @ - 1], v)
         ELSE [DPQ_check(q, ~q.is_dominated[v], "dominate: !is_dominated")
                  EXCEPT !.is_dominated[v] = TRUE]

DPQ_undominate(q, v) ==
    IF q.ub THEN q
    ELSE IF q.is_heavy
         THEN splice_in([DPQ_check(q, q.is_dominated[v], "undominate: is_dominated")
                            EXCEPT !.is_dominated[v] = FALSE,
                                   !.undominated_count[q.degree_node[v]] = @ + 1], v)
         ELSE [DPQ_check(q, q.is_dominated[v], "undominate: is_dominated")
                  EXCEPT !.is_dominated[v] = FALSE]

\* k increments of v
RECURSIVE IncrementTimes(_, _, _)
IncrementTimes(q, v, k) ==
    IF k = 0 \/ q.ub THEN q ELSE IncrementTimes(increment(q, v), v, k - 1)

RECURSIVE DegreePQ_fill(_, _, _)
DegreePQ_fill(q, g, v) ==
    IF v >= g.n \/ q.ub THEN q
    ELSE DegreePQ_fill(IncrementTimes(q, v, deg(g, v)), g, v + 1)

\* DegreePQBase(Graph&): every vertex at rank 0, then one increment per
\* entry of its neighbour list
DegreePQ(g, heavy) == DegreePQ_fill(DegreePQ_empty(g.n, heavy), g, 0)

\* count_minimum_to_dominate(m): walk from tail towards head
RECURSIVE count_minimum_from(_, _, _, _)
count_minimum_from(q, node, m, count) ==
    LET d == NodeDeg(q, node)
        vertices_needed == (m + d - 1) \div d
    IN IF d = 0 \/ d = INVALID_VERTEX THEN MAX_VERTS + 1
       ELSE IF vertices_needed <= q.unfixed_count[node] THEN count + vertices_needed
       ELSE count_minimum_from(q, q.prev[node], m - d * q.unfixed_count[node],
                               count + q.unfixed_count[node])

count_minimum_to_dominate(q, m) == count_minimum_from(q, q.prev[HeadTail], m, 0)

\* DegreePQHeavy: head of the undominated list of the first node, walking
\* from head (min) or tail (max), whose undominated_count is not 0
RECURSIVE undominated_scan(_, _, _)
undominated_scan(q, node, forward) ==
    IF NodeDeg(q, node) = INVALID_VERTEX THEN INVALID_VERTEX
    ELSE IF q.undominated_count[node] = 0
         THEN undominated_scan(q, IF forward THEN q.next[node] ELSE q.prev[node], forward)
         ELSE IF q.undominated[node] = <<>> THEN INVALID_VERTEX
              ELSE q.undominated[node][1]

get_min_undominated_vertex(q) == undominated_scan(q, q.next[HeadTail], TRUE)

get_max_undominated_vertex(q) == undominated_scan(q, q.prev[HeadTail], FALSE)

(***************************************************************************)
(* State                                                                   *)
(***************************************************************************)
VARIABLES
    inst,                \* DominationInstance as read and filtered: G, force_in, force_out
    jobs,                \* solver processes still to be run on inst
    results,             \* one record per finished solver process
    pc,                  \* "start", "search", "done", "undefined", ...
    solver,              \* the solver object: template parameters and settings
    G,                   \* inst.G as the running solver sees it
    D, B,                \* VertexSets: working set and best set
    covered, fixed,      \* arrays indexed by vertex
    total_covered, total_fixed,
    max_deg,             \* fixed_order only
    UndominatedDPQ,      \* DegreePQLight (DD, MDD)
    CandidateDPQ,        \* DegreePQHeavy (DD)
    CandidateNeighbours, \* vector<VertexSet> (MDD)
    UndominatedSet,      \* VertexSet (MDD)
    mdd_stack,           \* MDDStack (MDD)
    depth_log,
    stack,               \* call stack of FindDominatingSet frames, innermost last
    retval,              \* value returned by the last FindDominatingSet call
    output,              \* sets passed to process_set, in order
    failed,              \* assertions whose condition was false
    args,                \* the command line after the program name
    current_idx,         \* position of the tokenizer S of parse_arguments
    C,                   \* SolverContext: input source, filters, output proxy
    cin,                 \* the text on standard input and the read position
    unidom_log,          \* what has been written to unidom::log
    exit_status,         \* "running", "exit 0", or "SIGABRT" after std::terminate
    proxy                \* the output proxy object: calls received

vars == <<inst, jobs, results, pc, solver, G, D, B, covered, fixed, total_covered,
          total_fixed, max_deg, UndominatedDPQ, CandidateDPQ, CandidateNeighbours,
          UndominatedSet, mdd_stack, depth_log, stack, retval, output, failed,
          args, current_idx, C, cin, unidom_log, exit_status, proxy>>

\* what the solver never touches
main_vars == <<args, current_idx, C, cin, unidom_log, exit_status>>

\* the solver's mutable data as one record, so that the code's functions
\* become operators from state to state
State ==
    [G |-> G, D |-> D, B |-> B, covered |-> covered, fixed |-> fixed,
     total_covered |-> total_covered, total_fixed |-> total_fixed, max_deg |-> max_deg,
     UndominatedDPQ |-> UndominatedDPQ, CandidateDPQ |-> CandidateDPQ,
     CandidateNeighbours |-> CandidateNeighbours, UndominatedSet |-> UndominatedSet,
     mdd_stack |-> mdd_stack, failed |-> failed, ub |-> FALSE, forced |-> FALSE,
     released |-> <<>>]

SetState(S) ==
    /\ G' = S.G
    /\ D' = S.D
    /\ B' = S.B
    /\ covered' = S.covered
    /\ fixed' = S.fixed
    /\ total_covered' = S.total_covered
    /\ total_fixed' = S.total_fixed
    /\ max_deg' = S.max_deg
    /\ UndominatedDPQ' = S.UndominatedDPQ
    /\ CandidateDPQ' = S.CandidateDPQ
    /\ CandidateNeighbours' = S.CandidateNeighbours
    /\ UndominatedSet' = S.UndominatedSet
    /\ mdd_stack' = S.mdd_stack
    /\ failed' = S.failed \cup S.UndominatedDPQ.failed \cup S.CandidateDPQ.failed

\* undefined behaviour was met somewhere while S was computed
Undefined(S) == S.ub \/ S.UndominatedDPQ.ub \/ S.CandidateDPQ.ub

\* a component the solver family does not have
Absent == [ub |-> FALSE, failed |-> {}]

Check(S, cond, msg) == IF cond THEN S ELSE [S EXCEPT !.failed = @ \cup {msg}]

\* D.add(v) with its assertion
D_add(S, v) ==
    [Check(S, ~contains(S.D, v), "VertexSet::add: !contains(v)") EXCEPT !.D = VSadd(S.D, v)]

\* D.remove_pop(v) with its assertion
D_remove_pop(S, v) ==
    [Check(S, S.D.set_indices[v] = VSsize(S.D) - 1, "VertexSet::remove_pop: last")
        EXCEPT !.D = remove_pop(S.D, v)]

(***************************************************************************)
(* fixed_order (bbt_fixed_order.cpp)                                       *)
(***************************************************************************)
Max(a, b) == IF a >= b THEN a ELSE b

RECURSIVE compute_max_deg_from(_, _, _)
compute_max_deg_from(g, i, m) ==
    IF i >= g.n THEN m ELSE compute_max_deg_from(g, i + 1, Max(m, deg(g, i)))

\* compute_max_deg: max_deg = max(max_deg, deg(i)) over all i
compute_max_deg(S) == [S EXCEPT !.max_deg = compute_max_deg_from(S.G, 0, S.max_deg)]

\* FO_cover with total_covered++ outside its test: vertices already covered
\* are counted again
RECURSIVE FO_cover_miscounted(_, _, _)
FO_cover_miscounted(S, lst, k) ==
    IF k > Len(lst) \/ Undefined(S) THEN S
    ELSE FO_cover_miscounted([S EXCEPT !.total_covered = @ + 1, !.covered[lst[k]] = @ + 1],
                             lst, k + 1)

\* covered[u]++ for the neighbours lst[k..] of a vertex entering D
RECURSIVE FO_cover(_, _, _)
FO_cover(S, lst, k) ==
    IF k > Len(lst) \/ Undefined(S) THEN S
    ELSE FO_cover([S EXCEPT !.total_covered = IF S.covered[lst[k]] = 0 THEN @ + 1 ELSE @,
                            !.covered[lst[k]] = @ + 1], lst, k + 1)

\* covered[k]-- for the neighbours of a vertex leaving D (same order)
RECURSIVE FO_uncover(_, _, _)
FO_uncover(S, lst, k) ==
    IF k > Len(lst) \/ Undefined(S) THEN S
    ELSE FO_uncover([S EXCEPT !.covered[lst[k]] = @ - 1,
                              !.total_covered = IF S.covered[lst[k]] - 1 = 0 THEN @ - 1 ELSE @],
                    lst, k + 1)

RECURSIVE FO_force_in(_, _, _)
FO_force_in(S, lst, k) ==
    IF k > Len(lst) \/ Undefined(S) THEN S
    ELSE FO_force_in(FO_cover(D_add(S, lst[k]), S.G.neighbours[lst[k]], 1), lst, k + 1)

\* FO_force_out without fixed[v] = 1: the forced-out vertices are counted
\* but stay candidates
RECURSIVE FO_force_out_unmarked(_, _, _)
FO_force_out_unmarked(S, lst, k) ==
    IF k > Len(lst) \/ Undefined(S) THEN S
    ELSE FO_force_out_unmarked([S EXCEPT !.total_fixed = @ + 1], lst, k + 1)

RECURSIVE FO_force_out(_, _, _)
FO_force_out(S, lst, k) ==
    IF k > Len(lst) \/ Undefined(S) THEN S
    ELSE FO_force_out([S EXCEPT !.fixed[lst[k]] = 1, !.total_fixed = @ + 1], lst, k + 1)

\* the sentinel B of solve()
FO_initial_B(n, sv) ==
    IF ~sv.GENERATE_ALL /\ sv.total_upper_bound < n
    THEN reset_full(n, sv.total_upper_bound + 1)
    ELSE reset_full(n, n)

\* the members of a solver whose solve() has reset them, on the graph g
\* that add_loops and sort_neighbours_descending have prepared
FO_reset(g, sv) ==
    [G |-> g, D |-> reset_empty(g.n), B |-> FO_initial_B(g.n, sv),
     covered |-> [v \in 0..(g.n - 1) |-> 0], fixed |-> [v \in 0..(g.n - 1) |-> 0],
     total_covered |-> 0, total_fixed |-> 0, max_deg |-> 0,
     UndominatedDPQ |-> Absent, CandidateDPQ |-> Absent,
     CandidateNeighbours |-> Absent, UndominatedSet |-> Absent,
     mdd_stack |-> Absent, failed |-> {}, ub |-> FALSE, forced |-> FALSE,
     released |-> <<>>]

\* BBTFixedOrderSolver::solve up to the call of FindDominatingSet<true>(G, 0)
FO_solve(in, sv) ==
    FO_force_out(
        FO_force_in(compute_max_deg(FO_reset(sort_neighbours_descending(add_loops(in.G)), sv)),
                    in.force_in.set_elements, 1),
        in.force_out.set_elements, 1)

\* FO_next_uncovered taking the vertex it is given when that vertex has an
\* uncovered neighbour
RECURSIVE FO_next_uncovered_near(_, _)
FO_next_uncovered_near(S, i) ==
    IF i >= S.G.n THEN i
    ELSE IF S.covered[i] # 0 /\ \A u \in Range(S.G.neighbours[i]) : S.covered[u] # 0
         THEN FO_next_uncovered_near(S, i + 1) ELSE i

\* while(covered[i]) i++ : covered[] has MAX_VERTS zero-filled slots, so the
\* scan stops at n at the latest
RECURSIVE FO_next_uncovered(_, _)
FO_next_uncovered(S, i) ==
    IF i >= S.G.n THEN i
    ELSE IF S.covered[i] # 0 THEN FO_next_uncovered(S, i + 1) ELSE i

FO_min_vertices_needed(S) ==
    (S.G.n - S.total_covered + S.max_deg) \div (S.max_deg + 1)

\* the test that lets the node branch
FO_bounds_satisfied(S, sv) ==
    LET min_vertices_needed == FO_min_vertices_needed(S)
        min_total_size == VSsize(S.D) + min_vertices_needed
    IN IF sv.GENERATE_ALL
       THEN ~(min_total_size > sv.total_upper_bound
              \/ S.G.n - S.total_fixed < min_vertices_needed)
       ELSE ~(min_total_size >= VSsize(S.B)
              \/ S.G.n - S.total_fixed < min_vertices_needed)

\* i, then the uncovered neighbours of i, then the covered ones; fixed
\* vertices left out
FO_neighbour_array(S, i) ==
    LET nb == S.G.neighbours[i]
        unc(j) == S.fixed[j] = 0 /\ S.covered[j] = 0 /\ j # i
        cov(j) == S.fixed[j] = 0 /\ S.covered[j] # 0
    IN (IF S.fixed[i] = 0 THEN <<i>> ELSE <<>>) \o SelectSeq(nb, unc) \o SelectSeq(nb, cov)

\* assert(covered[i]) of add_vertex_to_set
FO_assert_covered(S, i) ==
    Check(S, S.covered[i] # 0, "fixed_order add_vertex_to_set: covered[i]")

\* FO_add_vertex_down without fixed[j] = 1: a vertex tried at this node
\* stays a candidate of the later branches
FO_add_vertex_down_unfixed(S, i, j) ==
    FO_assert_covered(
        FO_cover(D_add([S EXCEPT !.total_fixed = @ + 1], j), S.G.neighbours[j], 1), i)

\* add_vertex_to_set up to the recursive call
FO_add_vertex_down(S, i, j) ==
    FO_assert_covered(
        FO_cover(D_add([S EXCEPT !.fixed[j] = 1, !.total_fixed = @ + 1], j),
                 S.G.neighbours[j], 1), i)

\* add_vertex_to_set after the recursive call
FO_add_vertex_up(S, j) ==
    D_remove_pop(FO_uncover(S, S.G.neighbours[j], 1), j)

\* FO_unfix without total_fixed--
RECURSIVE FO_unfix_uncounted(_, _, _)
FO_unfix_uncounted(S, fixed_list, q) ==
    IF q < 1 \/ Undefined(S) THEN S
    ELSE FO_unfix_uncounted([S EXCEPT !.fixed[fixed_list[q]] = 0,
                                      !.released = Append(@, fixed_list[q])],
                            fixed_list, q - 1)

\* the loop that unfixes fixed_list, last to first
RECURSIVE FO_unfix(_, _, _)
FO_unfix(S, fixed_list, q) ==
    IF q < 1 \/ Undefined(S) THEN S
    ELSE FO_unfix([S EXCEPT !.fixed[fixed_list[q]] = 0, !.total_fixed = @ - 1,
                            !.released = Append(@, fixed_list[q])],
                  fixed_list, q - 1)

(***************************************************************************)
(* rank_neighbours (DD and MDD): bucket sort of the scanned candidates by  *)
(* uncovered degree into a doubly linked list, here the sequence of its    *)
(* nodes from head_tail.next to head_tail.prev.  degrees[] is a local      *)
(* array of get_max_degree()+1 slots.                                      *)
(***************************************************************************)
\* rank_insert with a node put before the nodes of its degree
RECURSIVE rank_insert_before(_, _, _, _)
rank_insert_before(q, scanned, k, acc) ==
    IF k > Len(scanned) \/ acc.ub THEN acc
    ELSE LET u == scanned[k]
             uncovered_deg == ranked_degree(q, u)
             pos == Cardinality({m \in 1..Len(acc.list) : acc.list[m].deg < uncovered_deg})
         IN IF uncovered_deg > get_max_degree(q)
            THEN [acc EXCEPT !.ub = TRUE]
            ELSE rank_insert_before(q, scanned, k + 1,
                    [acc EXCEPT !.list = InsertAt(@, pos + 1, [deg |-> uncovered_deg, u |-> u]),
                                !.positive = @ /\ uncovered_deg > 0])

\* a node goes behind degrees[d], the last node of its degree, or else
\* behind the last node reached from the tail whose deg is not above d
RECURSIVE rank_insert(_, _, _, _)
rank_insert(q, scanned, k, acc) ==
    IF k > Len(scanned) \/ acc.ub THEN acc
    ELSE LET u == scanned[k]
             uncovered_deg == ranked_degree(q, u)
             pos == Cardinality({m \in 1..Len(acc.list) : acc.list[m].deg <= uncovered_deg})
         IN IF uncovered_deg > get_max_degree(q)
            THEN [acc EXCEPT !.ub = TRUE]
            ELSE rank_insert(q, scanned, k + 1,
                    [acc EXCEPT !.list = InsertAt(@, pos + 1, [deg |-> uncovered_deg, u |-> u]),
                                !.positive = @ /\ uncovered_deg > 0])

\* the nodes met from one end of the list until a node of deg 0 (the
\* sentinel has deg 0)
RECURSIVE rank_collect(_, _)
rank_collect(list, k) ==
    IF k > Len(list) \/ list[k].deg = 0 THEN <<>>
    ELSE <<list[k].u>> \o rank_collect(list, k + 1)

\* the list read from its tail (DESCENDING) or from its head
rank_read(acc, rule) ==
    IF rule = "DESCENDING" THEN rank_collect(Reverse(acc.list), 1)
    ELSE rank_collect(acc.list, 1)

\* result: neighbour_array, the assertions that failed, and ub when a slot
\* beyond degrees[] is used or fewer than neighbour_count slots of
\* neighbour_array were written before they are read
rank_result(acc, arr, neighbour_count, strict) ==
    [neighbour_array |-> arr,
     ub |-> acc.ub \/ Len(arr) # neighbour_count,
     failed |-> (IF strict /\ ~acc.positive
                 THEN {"rank_neighbours: uncovered_deg > 0"} ELSE {})
                \cup (IF ~acc.ub /\ Len(arr) # neighbour_count
                      THEN {"rank_neighbours: i == neighbour_count"} ELSE {})]

rank_ranked(acc, rule, neighbour_count, strict) ==
    rank_result(acc, rank_read(acc, rule), neighbour_count, strict)

rank_neighbours(q, scanned, rule, strict) ==
    rank_ranked(rank_insert(q, scanned, 1, [list |-> <<>>, ub |-> FALSE, positive |-> TRUE]),
                rule, Len(scanned), strict)

(***************************************************************************)
(* DD (bbt_dd_variants.cpp)                                                *)
(***************************************************************************)
RECURSIVE DD_increment_candidates(_, _, _)
DD_increment_candidates(S, lst, k) ==
    IF k > Len(lst) \/ Undefined(S) THEN S
    ELSE DD_increment_candidates(
            [S EXCEPT !.CandidateDPQ = increment(@, lst[k])], lst, k + 1)

DD_add_candidate(S, v) ==
    DD_increment_candidates(
        [Check(S, S.fixed[v] # 0, "DD add_candidate: fixed[v]")
            EXCEPT !.fixed[v] = 0, !.total_fixed = @ - 1,
                   !.UndominatedDPQ = DPQ_add_candidate(@, v),
                   !.CandidateDPQ = DPQ_add_candidate(@, v)],
        S.G.neighbours[v], 1)

\* the loop of remove_candidate: forced when a decrement returns 0 for a
\* vertex that is not covered
RECURSIVE DD_decrement_candidates(_, _, _)
DD_decrement_candidates(S, lst, k) ==
    IF k > Len(lst) \/ S.CandidateDPQ.ub THEN S
    ELSE DD_decrement_candidates(
            [S EXCEPT !.CandidateDPQ = decrement(@, lst[k]),
                      !.forced = @ \/ (ranked_degree(S.CandidateDPQ, lst[k]) - 1 = 0
                                       /\ S.covered[lst[k]] = 0)],
            lst, k + 1)

\* remove_candidate returning true for a neighbour left with candidate
\* degree 0 whether it is covered or not
DD_remove_candidate_covered(S, v) ==
    LET R == DD_decrement_candidates(
                [Check(S, S.fixed[v] = 0, "DD remove_candidate: !fixed[v]")
                    EXCEPT !.fixed[v] = 1, !.total_fixed = @ + 1,
                           !.UndominatedDPQ = DPQ_remove_candidate(@, v),
                           !.CandidateDPQ = DPQ_remove_candidate(@, v),
                           !.forced = FALSE],
                S.G.neighbours[v], 1)
    IN [R EXCEPT !.forced = \E u \in Range(S.G.neighbours[v]) :
                                ranked_degree(R.CandidateDPQ, u) = 0]

\* S.forced holds the value returned
DD_remove_candidate(S, v) ==
    DD_decrement_candidates(
        [Check(S, S.fixed[v] = 0, "DD remove_candidate: !fixed[v]")
            EXCEPT !.fixed[v] = 1, !.total_fixed = @ + 1,
                   !.UndominatedDPQ = DPQ_remove_candidate(@, v),
                   !.CandidateDPQ = DPQ_remove_candidate(@, v),
                   !.forced = FALSE],
        S.G.neighbours[v], 1)

RECURSIVE UD_decrement_all(_, _, _)
UD_decrement_all(S, lst, k) ==
    IF k > Len(lst) \/ Undefined(S) THEN S
    ELSE UD_decrement_all([S EXCEPT !.UndominatedDPQ = decrement(@, lst[k])], lst, k + 1)

RECURSIVE UD_increment_all(_, _, _)
UD_increment_all(S, lst, k) ==
    IF k > Len(lst) \/ Undefined(S) THEN S
    ELSE UD_increment_all([S EXCEPT !.UndominatedDPQ = increment(@, lst[k])], lst, k + 1)

DD_dominate(S, v) ==
    IF S.covered[v] + 1 > 1 THEN [S EXCEPT !.covered[v] = @ + 1]
    ELSE UD_decrement_all([S EXCEPT !.covered[v] = @ + 1, !.total_covered = @ + 1,
                                    !.UndominatedDPQ = DPQ_dominate(@, v),
                                    !.CandidateDPQ = DPQ_dominate(@, v)],
                          S.G.neighbours[v], 1)

\* DD_undominate without total_covered--: a vertex that loses its last
\* dominator is still counted as covered
DD_undominate_uncounted(S, v) ==
    IF S.covered[v] - 1 > 0 THEN [S EXCEPT !.covered[v] = @ - 1]
    ELSE UD_increment_all([S EXCEPT !.covered[v] = @ - 1,
                                    !.UndominatedDPQ = DPQ_undominate(@, v),
                                    !.CandidateDPQ = DPQ_undominate(@, v)],
                          S.G.neighbours[v], 1)

DD_undominate(S, v) ==
    IF S.covered[v] - 1 > 0 THEN [S EXCEPT !.covered[v] = @ - 1]
    ELSE UD_increment_all([S EXCEPT !.covered[v] = @ - 1, !.total_covered = @ - 1,
                                    !.UndominatedDPQ = DPQ_undominate(@, v),
                                    !.CandidateDPQ = DPQ_undominate(@, v)],
                          S.G.neighbours[v], 1)

RECURSIVE DD_dominate_all(_, _, _)
DD_dominate_all(S, lst, k) ==
    IF k > Len(lst) \/ Undefined(S) THEN S ELSE DD_dominate_all(DD_dominate(S, lst[k]), lst, k + 1)

\* iterate_reverse(G[j].neighbours())
RECURSIVE DD_undominate_all(_, _, _)
DD_undominate_all(S, lst, k) ==
    IF k < 1 \/ Undefined(S) THEN S ELSE DD_undominate_all(DD_undominate(S, lst[k]), lst, k - 1)

RECURSIVE DD_force_in(_, _, _)
DD_force_in(S, lst, k) ==
    IF k > Len(lst) \/ Undefined(S) THEN S
    ELSE DD_force_in(DD_dominate_all(D_add(DD_remove_candidate(S, lst[k]), lst[k]),
                                     S.G.neighbours[lst[k]], 1), lst, k + 1)

RECURSIVE DD_force_out(_, _, _)
DD_force_out(S, lst, k) ==
    IF k > Len(lst) \/ Undefined(S) THEN S
    ELSE DD_force_out(DD_remove_candidate(S, lst[k]), lst, k + 1)

\* the sentinel B of solve() in the DD and MDD variants
DD_initial_B(n, sv) ==
    IF ~sv.GENERATE_ALL /\ sv.total_upper_bound < n
    THEN reset_full(n, sv.total_upper_bound + 1)
    ELSE reset_full(n, n - 1)

\* the members of a solver whose solve() has reset them and built the two
\* queues, on the graph g that add_loops and sort_neighbours_descending
\* have prepared
DD_reset(g, sv) ==
    [G |-> g, D |-> reset_empty(g.n), B |-> DD_initial_B(g.n, sv),
     covered |-> [v \in 0..(g.n - 1) |-> 0], fixed |-> [v \in 0..(g.n - 1) |-> 0],
     total_covered |-> 0, total_fixed |-> 0, max_deg |-> 0,
     UndominatedDPQ |-> DegreePQ(g, FALSE), CandidateDPQ |-> DegreePQ(g, TRUE),
     CandidateNeighbours |-> Absent, UndominatedSet |-> Absent,
     mdd_stack |-> Absent, failed |-> {}, ub |-> FALSE, forced |-> FALSE,
     released |-> <<>>]

\* BBTDDSolverVariant::solve up to the call of FindDominatingSet<true>(G)
DD_solve(in, sv) ==
    DD_force_out(
        DD_force_in(DD_reset(sort_neighbours_descending(add_loops(in.G)), sv),
                    in.force_in.set_elements, 1),
        in.force_out.set_elements, 1)

DD_bounds_satisfied(S, sv) ==
    LET min_vertices_needed ==
            count_minimum_to_dominate(S.UndominatedDPQ, S.G.n - S.total_covered)
        min_total_size == VSsize(S.D) + min_vertices_needed
    IN IF sv.GENERATE_ALL
       THEN ~(min_total_size > sv.total_upper_bound
              \/ S.G.n - S.total_fixed < min_vertices_needed)
       ELSE ~(min_total_size >= VSsize(S.B)
              \/ S.G.n - S.total_fixed < min_vertices_needed)

DD_choose_pivot(S, sv) ==
    IF sv.CHOOSE_VERTEX_RULE = "MIN_CD" THEN get_min_undominated_vertex(S.CandidateDPQ)
    ELSE get_max_undominated_vertex(S.CandidateDPQ)

DD_rank_neighbours(S, sv, v) ==
    LET nonfixed(u) == S.fixed[u] = 0
    IN rank_neighbours(S.UndominatedDPQ, SelectSeq(S.G.neighbours[v], nonfixed),
                       sv.RANK_NEIGHBOURS_RULE, TRUE)

\* add_vertex_to_set up to the recursive call; S.forced holds `forced`
DD_add_vertex_down(S, j) ==
    DD_dominate_all(D_add(DD_remove_candidate(S, j), j), S.G.neighbours[j], 1)

\* add_vertex_to_set after the recursive call
DD_add_vertex_up(S, j) ==
    D_remove_pop(DD_undominate_all(S, S.G.neighbours[j], Len(S.G.neighbours[j])), j)

\* S.released: the vertices the loop after the sibling loop has released
\* so far, in the order of their release
released(S, v) == [S EXCEPT !.released = Append(@, v)]

\* DD_restore with the commented-out loop of the source: last to first
RECURSIVE DD_restore_unstacked(_, _, _)
DD_restore_unstacked(S, fixed_list, q) ==
    IF q > Len(fixed_list) \/ Undefined(S) THEN S
    ELSE DD_restore_unstacked(
             released(DD_add_candidate(S, fixed_list[Len(fixed_list) + 1 - q]),
                      fixed_list[Len(fixed_list) + 1 - q]),
             fixed_list, q + 1)

\* add_candidate over fixed_list, first to last
RECURSIVE DD_restore(_, _, _)
DD_restore(S, fixed_list, q) ==
    IF q > Len(fixed_list) \/ Undefined(S) THEN S
    ELSE DD_restore(released(DD_add_candidate(S, fixed_list[q]), fixed_list[q]),
                    fixed_list, q + 1)

(***************************************************************************)
(* MDDStack (bbt_mddstack.hpp), as a field of the solver state: it reads   *)
(* G, CandidateNeighbours, UndominatedSet and UndominatedDPQ by reference  *)
(***************************************************************************)
RECURSIVE recompute_mdd_from(_, _, _, _)
recompute_mdd_from(S, lst, k, new_mdd) ==
    IF k > Len(lst) THEN new_mdd
    ELSE recompute_mdd_from(S, lst, k + 1,
                            Max(new_mdd, ranked_degree(S.UndominatedDPQ, lst[k])))

\* recompute_mdd taking the least rank among the candidates instead of the
\* largest
recompute_mdd_least(S, v) ==
    LET ranks == {ranked_degree(S.UndominatedDPQ, u) :
                     u \in Range(S.CandidateNeighbours[v].set_elements)}
    IN IF ranks = {} THEN 0 ELSE SetMin(ranks)

recompute_mdd(S, v) ==
    recompute_mdd_from(S, S.CandidateNeighbours[v].set_elements, 1, 0)

\* row.new_entry(u, old_mdd) on the top row
new_entry(M, u, old_mdd) ==
    [M EXCEPT !.stack[Len(M.stack)].entries = Append(@, [vertex |-> u, old_mdd |-> old_mdd])]

\* new_row putting the row under the rows there are
new_row_below(M, v) == [M EXCEPT !.stack = <<[dominator |-> v, entries |-> <<>>]>> \o @]

new_row(M, v) == [M EXCEPT !.stack = Append(@, [dominator |-> v, entries |-> <<>>])]

\* the first loop of add_dominator: the neighbours of v leave the system
RECURSIVE add_dominator_clear(_, _, _)
add_dominator_clear(M, lst, k) ==
    IF k > Len(lst) THEN M
    ELSE IF M.mdd_values[lst[k]] = INVALID_MDD THEN add_dominator_clear(M, lst, k + 1)
    ELSE add_dominator_clear(
            [new_entry(M, lst[k], M.mdd_values[lst[k]])
                EXCEPT !.mdd_values[lst[k]] = INVALID_MDD,
                       !.mdd_counts[M.mdd_values[lst[k]]] = @ - 1],
            lst, k + 1)

\* u goes from old_mdd to new_mdd, and the top row remembers old_mdd
mdd_change(M, u, old_mdd, new_mdd) ==
    [new_entry(M, u, old_mdd)
        EXCEPT !.mdd_values[u] = new_mdd,
               !.mdd_counts = [@ EXCEPT ![old_mdd] = @ - 1, ![new_mdd] = @ + 1]]

\* the assertions of the recomputation loops: add_dominator (strict) has
\* both, exclude_dominator the second
mdd_asserted(S, old_mdd, new_mdd, strict) ==
    Check(Check(S, ~strict \/ old_mdd # INVALID_MDD, "MDDStack: old_mdd != INVALID_MDD"),
          new_mdd < old_mdd, "MDDStack: new_mdd < old_mdd")

\* the recomputation loop shared by add_dominator (over UndominatedSet) and
\* exclude_dominator (over the neighbours of v that UndominatedSet contains)
RECURSIVE mdd_recompute_all(_, _, _, _)
RECURSIVE mdd_recompute_one(_, _, _, _, _, _)
mdd_recompute_one(S, lst, k, skip_dominated, old_mdd, new_mdd) ==
    IF old_mdd = new_mdd THEN mdd_recompute_all(S, lst, k + 1, skip_dominated)
    ELSE IF old_mdd \notin DOMAIN S.mdd_stack.mdd_counts
         THEN [mdd_asserted(S, old_mdd, new_mdd, ~skip_dominated) EXCEPT !.ub = TRUE]
         ELSE mdd_recompute_all(
                 [mdd_asserted(S, old_mdd, new_mdd, ~skip_dominated)
                     EXCEPT !.mdd_stack = mdd_change(@, lst[k], old_mdd, new_mdd)],
                 lst, k + 1, skip_dominated)

mdd_recompute_all(S, lst, k, skip_dominated) ==
    IF k > Len(lst) \/ Undefined(S) THEN S
    ELSE IF skip_dominated /\ ~contains(S.UndominatedSet, lst[k])
         THEN mdd_recompute_all(S, lst, k + 1, skip_dominated)
         ELSE mdd_recompute_one(S, lst, k, skip_dominated,
                                S.mdd_stack.mdd_values[lst[k]], recompute_mdd(S, lst[k]))

\* while(mdd_counts[max_mdd] == 0 [&& max_mdd > 0]) max_mdd--; reading
\* mdd_counts[-1] is out of bounds
RECURSIVE lower_max_mdd(_, _)
lower_max_mdd(S, guarded) ==
    IF Undefined(S) THEN S
    ELSE IF S.mdd_stack.max_mdd < 0 THEN [S EXCEPT !.ub = TRUE]
    ELSE IF S.mdd_stack.mdd_counts[S.mdd_stack.max_mdd] = 0
            /\ (~guarded \/ S.mdd_stack.max_mdd > 0)
         THEN lower_max_mdd([S EXCEPT !.mdd_stack.max_mdd = @ - 1], guarded)
         ELSE S

\* the row of v is opened and the neighbours of v are cleared
add_dominator_row(S, v) ==
    [S EXCEPT !.mdd_stack = add_dominator_clear(new_row(@, v), S.G.neighbours[v], 1)]

add_dominator(S, v) ==
    IF Undefined(S) THEN S
    ELSE lower_max_mdd(
            mdd_recompute_all(add_dominator_row(S, v), S.UndominatedSet.set_elements, 1, FALSE),
            TRUE)

exclude_dominator(S, v) ==
    IF Undefined(S) THEN S
    ELSE lower_max_mdd(
            mdd_recompute_all([S EXCEPT !.mdd_stack = new_row(@, v)], S.G.neighbours[v], 1, TRUE),
            FALSE)

\* u returns from old_mdd to the new_mdd that an entry remembers;
\* remove_dominator leaves mdd_counts[INVALID_MDD] alone
mdd_revert(M, u, old_mdd, new_mdd) ==
    [M EXCEPT !.mdd_values[u] = new_mdd,
              !.mdd_counts = IF old_mdd = INVALID_MDD
                             THEN [M.mdd_counts EXCEPT ![new_mdd] = @ + 1]
                             ELSE [M.mdd_counts EXCEPT ![old_mdd] = @ - 1, ![new_mdd] = @ + 1]]

\* the loop of remove_dominator and of unexclude_dominator (strict): the
\* entries of the popped row are restored last to first
RECURSIVE mdd_restore(_, _, _, _, _)
mdd_restore(S, entries, k, highest_new_mdd, strict) ==
    IF k < 1
    THEN IF highest_new_mdd > S.mdd_stack.max_mdd
         THEN [S EXCEPT !.mdd_stack.max_mdd = highest_new_mdd] ELSE S
    ELSE IF strict /\ S.mdd_stack.mdd_values[entries[k].vertex] = INVALID_MDD
         THEN [Check(S, FALSE, "unexclude_dominator: new_mdd > old_mdd") EXCEPT !.ub = TRUE]
         ELSE mdd_restore(
                 [Check(S, ~strict \/ entries[k].old_mdd
                                        > S.mdd_stack.mdd_values[entries[k].vertex],
                        "unexclude_dominator: new_mdd > old_mdd")
                     EXCEPT !.mdd_stack = mdd_revert(@, entries[k].vertex,
                                                     @.mdd_values[entries[k].vertex],
                                                     entries[k].old_mdd)],
                 entries, k - 1, Max(highest_new_mdd, entries[k].old_mdd), strict)

\* what pop_row(v) leaves: the assertion and the stack without its top row
pop_row(S, v) ==
    [Check(S, S.mdd_stack.stack[Len(S.mdd_stack.stack)].dominator = v,
           "MDDStack::pop_row: dominator == result.dominator")
        EXCEPT !.mdd_stack.stack = SubSeq(@, 1, Len(@) - 1)]

\* pop_row(v), then the restore loop over the entries of the popped row
mdd_pop(S, v, strict) ==
    IF Undefined(S) THEN S
    ELSE IF S.mdd_stack.stack = <<>> THEN [S EXCEPT !.ub = TRUE]
    ELSE mdd_restore(pop_row(S, v), S.mdd_stack.stack[Len(S.mdd_stack.stack)].entries,
                     Len(S.mdd_stack.stack[Len(S.mdd_stack.stack)].entries), 0, strict)

remove_dominator(S, v) == mdd_pop(S, v, FALSE)

unexclude_dominator(S, v) == mdd_pop(S, v, TRUE)

RECURSIVE min_vertices_from(_, _, _, _)
min_vertices_from(M, mdd, c, verts_needed) ==
    IF mdd > M.max_mdd THEN verts_needed
    ELSE LET c1 == c + M.mdd_counts[mdd]
             steps == IF c1 > 0 THEN (c1 + mdd - 1) \div mdd ELSE 0
         IN min_vertices_from(M, mdd + 1, c1 - steps * mdd, verts_needed + steps)

\* min_vertices_needed: `while(c > 0){c -= mdd; verts_needed++;}` runs
\* ceil(c/mdd) times
min_vertices_needed(M) ==
    IF M.mdd_counts[0] > 0 THEN MAX_VERTS ELSE min_vertices_from(M, 1, 0, 0)

RECURSIVE min_mdd_scan(_, _, _, _, _)
min_mdd_scan(M, lst, k, min_mdd, result) ==
    IF k > Len(lst) THEN result
    ELSE IF M.mdd_values[lst[k]] < min_mdd
         THEN min_mdd_scan(M, lst, k + 1, M.mdd_values[lst[k]], lst[k])
         ELSE min_mdd_scan(M, lst, k + 1, min_mdd, result)

get_min_mdd_vertex(S) ==
    min_mdd_scan(S.mdd_stack, S.UndominatedSet.set_elements, 1, MAX_VERTS, INVALID_VERTEX)

\* first vertex of UndominatedSet, in iteration order, whose mdd is max_mdd
get_max_mdd_vertex(S) ==
    LET lst == S.UndominatedSet.set_elements
        hits == {k \in 1..Len(lst) : S.mdd_stack.mdd_values[lst[k]] = S.mdd_stack.max_mdd}
    IN IF hits = {} THEN INVALID_VERTEX ELSE lst[SetMin(hits)]

\* the loop of the constructor over UndominatedSet
RECURSIVE MDDStack_fill(_, _, _)
MDDStack_fill(S, lst, k) ==
    IF k > Len(lst) \/ Undefined(S) THEN S
    ELSE MDDStack_fill([S EXCEPT !.mdd_stack.mdd_values[lst[k]] = recompute_mdd(S, lst[k]),
                                 !.mdd_stack.mdd_counts[recompute_mdd(S, lst[k])] = @ + 1],
                       lst, k + 1)

\* the last loop of the constructor: max_mdd is the largest i < n with
\* mdd_counts[i] > 0, and is left as allocated when there is none
MDDStack_max(S) ==
    IF \A d \in 0..(S.G.n - 1) : S.mdd_stack.mdd_counts[d] = 0
    THEN [S EXCEPT !.ub = TRUE]
    ELSE [S EXCEPT !.mdd_stack.max_mdd =
             SetMax({d \in 0..(S.G.n - 1) : S.mdd_stack.mdd_counts[d] > 0})]

\* MDDStack(G, CandidateNeighbours, UndominatedSet, UndominatedDPQ)
MDDStack(S) ==
    MDDStack_max(
        MDDStack_fill(
            [S EXCEPT !.mdd_stack =
                [mdd_values |-> [v \in 0..(S.G.n - 1) |-> -1],
                 mdd_counts |-> [d \in 0..S.G.n |-> 0],
                 max_mdd |-> 0, stack |-> <<>>, ub |-> FALSE, failed |-> {}]],
            S.UndominatedSet.set_elements, 1))

(***************************************************************************)
(* MDD (bbt_mdd_variants.cpp)                                              *)
(***************************************************************************)
RECURSIVE MDD_candidates_add(_, _, _, _)
MDD_candidates_add(S, v, lst, k) ==
    IF k > Len(lst) \/ Undefined(S) THEN S
    ELSE MDD_candidates_add(
            [Check(S, ~contains(S.CandidateNeighbours[lst[k]], v), "VertexSet::add: !contains(v)")
                EXCEPT !.CandidateNeighbours[lst[k]] = VSadd(@, v)],
            v, lst, k + 1)

MDD_add_candidate(S, v) ==
    IF Undefined(S) THEN S
    ELSE MDD_candidates_add(
            [Check(S, S.fixed[v] # 0, "MDD add_candidate: fixed[v]")
                EXCEPT !.fixed[v] = 0, !.total_fixed = @ - 1,
                       !.UndominatedDPQ = DPQ_add_candidate(@, v)],
            v, S.G.neighbours[v], 1)

\* CandidateNeighbours[u].remove(v) of an absent v indexes set_elements
\* with a stale set_indices value
RECURSIVE MDD_candidates_remove(_, _, _, _)
MDD_candidates_remove(S, v, lst, k) ==
    IF k > Len(lst) \/ S.ub THEN S
    ELSE IF ~contains(S.CandidateNeighbours[lst[k]], v)
         THEN [Check(S, FALSE, "VertexSet::remove: contains(v)") EXCEPT !.ub = TRUE]
         ELSE MDD_candidates_remove(
                 [S EXCEPT !.CandidateNeighbours[lst[k]] = VSremove(@, v),
                           !.forced = @ \/ (VSsize(S.CandidateNeighbours[lst[k]]) - 1 = 0
                                            /\ S.covered[lst[k]] = 0)],
                 v, lst, k + 1)

\* S.forced holds the value returned
MDD_remove_candidate(S, v) ==
    IF Undefined(S) THEN S
    ELSE MDD_candidates_remove(
            [Check(S, S.fixed[v] = 0, "MDD remove_candidate: !fixed[v]")
                EXCEPT !.fixed[v] = 1, !.total_fixed = @ + 1,
                       !.UndominatedDPQ = DPQ_remove_candidate(@, v),
                       !.forced = FALSE],
            v, S.G.neighbours[v], 1)

MDD_dominate(S, v) ==
    IF S.covered[v] + 1 > 1 THEN [S EXCEPT !.covered[v] = @ + 1]
    ELSE UD_decrement_all([S EXCEPT !.covered[v] = @ + 1, !.total_covered = @ + 1,
                                    !.UndominatedDPQ = DPQ_dominate(@, v),
                                    !.UndominatedSet = VSremove(@, v)],
                          S.G.neighbours[v], 1)

MDD_undominate(S, v) ==
    IF S.covered[v] - 1 > 0 THEN [S EXCEPT !.covered[v] = @ - 1]
    ELSE UD_increment_all([S EXCEPT !.covered[v] = @ - 1, !.total_covered = @ - 1,
                                    !.UndominatedDPQ = DPQ_undominate(@, v),
                                    !.UndominatedSet = VSadd(@, v)],
                          S.G.neighbours[v], 1)

RECURSIVE MDD_dominate_all(_, _, _)
MDD_dominate_all(S, lst, k) ==
    IF k > Len(lst) \/ Undefined(S) THEN S
    ELSE MDD_dominate_all(MDD_dominate(S, lst[k]), lst, k + 1)

\* iterate_reverse(G[j].neighbours())
RECURSIVE MDD_undominate_all(_, _, _)
MDD_undominate_all(S, lst, k) ==
    IF k < 1 \/ Undefined(S) THEN S
    ELSE MDD_undominate_all(MDD_undominate(S, lst[k]), lst, k - 1)

RECURSIVE MDD_force_in(_, _, _)
MDD_force_in(S, lst, k) ==
    IF k > Len(lst) \/ Undefined(S) THEN S
    ELSE MDD_force_in(
            add_dominator(MDD_dominate_all(D_add(MDD_remove_candidate(S, lst[k]), lst[k]),
                                           S.G.neighbours[lst[k]], 1), lst[k]),
            lst, k + 1)

RECURSIVE MDD_force_out(_, _, _)
MDD_force_out(S, lst, k) ==
    IF k > Len(lst) \/ Undefined(S) THEN S
    ELSE MDD_force_out(exclude_dominator(MDD_remove_candidate(S, lst[k]), lst[k]), lst, k + 1)

\* CandidateNeighbours[v]: the neighbours of v added in list order
RECURSIVE VSadd_all(_, _, _)
VSadd_all(s, lst, k) == IF k > Len(lst) THEN s ELSE VSadd_all(VSadd(s, lst[k]), lst, k + 1)

\* the members of a solver whose solve() has reset them and built the
\* queue and the candidate-neighbour sets, on the graph g that add_loops
\* and sort_neighbours_descending have prepared
MDD_reset(g, sv) ==
    [G |-> g, D |-> reset_empty(g.n), B |-> DD_initial_B(g.n, sv),
     covered |-> [v \in 0..(g.n - 1) |-> 0], fixed |-> [v \in 0..(g.n - 1) |-> 0],
     total_covered |-> 0, total_fixed |-> 0, max_deg |-> 0,
     UndominatedDPQ |-> DegreePQ(g, FALSE), CandidateDPQ |-> Absent,
     CandidateNeighbours |->
         [v \in 0..(g.n - 1) |-> VSadd_all(reset_empty(g.n), g.neighbours[v], 1)],
     UndominatedSet |-> reset_full(g.n, g.n),
     mdd_stack |-> Absent, failed |-> {}, ub |-> FALSE, forced |-> FALSE,
     released |-> <<>>]

\* BBTMDDSolverVariant::solve up to the call of FindDominatingSet<true>(G)
MDD_solve(in, sv) ==
    MDD_force_out(
        MDD_force_in(MDDStack(MDD_reset(sort_neighbours_descending(add_loops(in.G)), sv)),
                     in.force_in.set_elements, 1),
        in.force_out.set_elements, 1)

\* 1: go on; 0: fatal; -1: possibly caused by the current sibling
evaluate_bounds(S, sv) ==
    LET n == S.G.n
        mvn == min_vertices_needed(S.mdd_stack)
        min_total_size == VSsize(S.D) + mvn
    IN IF mvn >= MAX_VERTS THEN 0
       ELSE IF n - S.total_fixed + 1 < mvn THEN 0
       ELSE IF n - S.total_fixed + 1 = mvn THEN -1
       ELSE IF sv.GENERATE_ALL
            THEN (IF min_total_size > sv.total_upper_bound THEN -1 ELSE 1)
            ELSE (IF min_total_size >= VSsize(S.B) THEN -1 ELSE 1)

\* scan of UndominatedSet for the smallest (largest) candidate-neighbour set
RECURSIVE cd_scan(_, _, _, _, _, _)
cd_scan(S, lst, k, best, result, want_min) ==
    IF k > Len(lst) THEN result
    ELSE LET size == VSsize(S.CandidateNeighbours[lst[k]])
         IN IF (want_min /\ size < best) \/ (~want_min /\ size > best)
            THEN cd_scan(S, lst, k + 1, size, lst[k], want_min)
            ELSE cd_scan(S, lst, k + 1, best, result, want_min)

choose_next_vertex(S, sv) ==
    IF sv.CHOOSE_VERTEX_RULE = "MIN_MDD" THEN get_min_mdd_vertex(S)
    ELSE IF sv.CHOOSE_VERTEX_RULE = "MAX_MDD" THEN get_max_mdd_vertex(S)
    ELSE IF sv.CHOOSE_VERTEX_RULE = "MIN_CD"
         THEN cd_scan(S, S.UndominatedSet.set_elements, 1, MAX_VERTS, INVALID_VERTEX, TRUE)
         ELSE cd_scan(S, S.UndominatedSet.set_elements, 1, 0, INVALID_VERTEX, FALSE)

MDD_rank_neighbours(S, sv, v) ==
    rank_neighbours(S.UndominatedDPQ, S.CandidateNeighbours[v].set_elements,
                    sv.RANK_NEIGHBOURS_RULE, FALSE)

\* add_vertex_to_set up to the recursive call; S.forced holds `forced`
MDD_add_vertex_down(S, j) ==
    add_dominator(MDD_dominate_all(D_add(MDD_remove_candidate(S, j), j),
                                   S.G.neighbours[j], 1), j)

\* add_vertex_to_set after the recursive call
MDD_add_vertex_up(S, j) ==
    exclude_dominator(
        D_remove_pop(MDD_undominate_all(remove_dominator(S, j), S.G.neighbours[j],
                                        Len(S.G.neighbours[j])), j), j)

\* unexclude_dominator and add_candidate over fixed_list, last to first
RECURSIVE MDD_restore(_, _, _)
MDD_restore(S, fixed_list, q) ==
    IF q < 1 \/ Undefined(S) THEN S
    ELSE MDD_restore(
             released(MDD_add_candidate(unexclude_dominator(S, fixed_list[q]), fixed_list[q]),
                      fixed_list[q]),
             fixed_list, q - 1)

(***************************************************************************)
(* BBTFrameworkSolver (bbt_framework.hpp)                                  *)
(***************************************************************************)
\* the settings the constructor gives every solver
BBTFrameworkSolver ==
    [resmod_mod |-> 1, resmod_res |-> 0, resmod_depth |-> INVALID_DEPTH,
     total_upper_bound |-> MAX_VERTS, total_lower_bound |-> 0]

\* report_node testing the count of the entries with this one included
report_node_inclusive(sv, log, check_resmod_depth, depth) ==
    IF check_resmod_depth
    THEN IF depth = sv.resmod_depth
         THEN (IF (log[depth] + 1) % sv.resmod_mod = sv.resmod_res THEN 1 ELSE 0)
         ELSE -1
    ELSE 1

\* report_node<check_resmod_depth>(depth): the value returned
report_node(sv, log, check_resmod_depth, depth) ==
    IF check_resmod_depth
    THEN IF depth = sv.resmod_depth
         THEN (IF ((log[depth] + 1) - 1) % sv.resmod_mod = sv.resmod_res THEN 1 ELSE 0)
         ELSE -1
    ELSE 1

\* depth_log after FindDominatingSet has reported the node: report_node
\* counts it; when the answer is 1 under check_resmod_depth the node is
\* unreported and counted again by FindDominatingSet<false>
reported(sv, log, check_resmod_depth, depth) ==
    LET once == [log EXCEPT ![depth] = @ + 1]
    IN IF check_resmod_depth /\ report_node(sv, log, check_resmod_depth, depth) = 1
       THEN [[once EXCEPT ![depth] = @ - 1] EXCEPT ![depth] = @ + 1]
       ELSE once

(***************************************************************************)
(* Registered solvers                                                      *)
(***************************************************************************)
Variant(family, choose, rank, recheck, generate, name) ==
    [family |-> family, CHOOSE_VERTEX_RULE |-> choose, RANK_NEIGHBOURS_RULE |-> rank,
     FORCE_STOP_ON_TRAPPED_VERTEX |-> FALSE, RECHECK_BOUNDS_IN_LOOP |-> recheck,
     GENERATE_ALL |-> generate, name |-> name]

OptimizationVariants ==
    << Variant("FO", "NONE", "NONE", FALSE, FALSE, "fixed_order"),
       Variant("DD", "MIN_CD", "ASCENDING", FALSE, FALSE, "DD_minCD_asc"),
       Variant("DD", "MIN_CD", "DESCENDING", FALSE, FALSE, "DD_minCD_desc"),
       Variant("MDD", "MIN_CD", "ASCENDING", TRUE, FALSE, "MDD_minCD_asc"),
       Variant("MDD", "MIN_CD", "DESCENDING", TRUE, FALSE, "MDD_minCD_desc"),
       Variant("MDD", "MIN_MDD", "DESCENDING", TRUE, FALSE, "MDD_minMDD_desc"),
       Variant("MDD", "MAX_MDD", "DESCENDING", TRUE, FALSE, "MDD_maxMDD_desc") >>

GenerationVariants ==
    << Variant("FO", "NONE", "NONE", FALSE, TRUE, "fixed_order_all"),
       Variant("DD", "MIN_CD", "ASCENDING", FALSE, TRUE, "DD_minCD_asc_all"),
       Variant("DD", "MIN_CD", "DESCENDING", FALSE, TRUE, "DD_minCD_desc_all"),
       Variant("MDD", "MIN_CD", "ASCENDING", TRUE, TRUE, "MDD_minCD_asc_all"),
       Variant("MDD", "MIN_CD", "DESCENDING", TRUE, TRUE, "MDD_minCD_desc_all"),
       Variant("MDD", "MIN_MDD", "DESCENDING", TRUE, TRUE, "MDD_minMDD_desc_all"),
       Variant("MDD", "MAX_MDD", "DESCENDING", TRUE, TRUE, "MDD_maxMDD_desc_all") >>

RegisteredVariants == Range(OptimizationVariants) \cup Range(GenerationVariants)

\* a solver object: a registered variant with the constructor's settings
\* changed by accept_argument
SolverWith(variant, settings) ==
    [x \in DOMAIN variant \cup DOMAIN settings |->
        IF x \in DOMAIN variant THEN variant[x] ELSE settings[x]]

(***************************************************************************)
(* Call frames                                                             *)
(***************************************************************************)
\* what a call of FindDominatingSet is meant to leave as it found it
Snapshot(S, family) ==
    [D |-> S.D.set_elements, covered |-> S.covered, fixed |-> S.fixed,
     total_covered |-> S.total_covered, total_fixed |-> S.total_fixed,
     undominated_rank |->
        IF family = "FO" THEN <<>>
        ELSE [v \in Verts(S.G) |-> ranked_degree(S.UndominatedDPQ, v)],
     candidate_rank |->
        IF family # "DD" THEN <<>>
        ELSE [v \in Verts(S.G) |-> ranked_degree(S.CandidateDPQ, v)],
     mdd_values |-> IF family # "MDD" THEN <<>> ELSE S.mdd_stack.mdd_values,
     mdd_counts |-> IF family # "MDD" THEN <<>> ELSE S.mdd_stack.mdd_counts,
     candidate_neighbours |->
        IF family # "MDD" THEN <<>>
        ELSE [v \in Verts(S.G) |-> Range(S.CandidateNeighbours[v].set_elements)]]

\* frame of a call that has just been made; `first` is the argument i of the
\* fixed_order variant, `trapped` records that an add_vertex_to_set of the
\* loop has returned true (the iterations FORCE_STOP_ON_TRAPPED_VERTEX would
\* not run are those made with `trapped` set)
NewFrame(check_resmod_depth, first, S, family) ==
    [pc |-> "enter", check_resmod_depth |-> check_resmod_depth, first |-> first,
     i |-> INVALID_VERTEX, neighbour_array |-> <<>>, q |-> 0, fixed_list |-> <<>>,
     j |-> INVALID_VERTEX, forced |-> FALSE, end_branch |-> FALSE, trapped |-> FALSE,
     entry |-> Snapshot(S, family)]

Top == stack[Len(stack)]

Pop == SubSeq(stack, 1, Len(stack) - 1)

ReplaceTop(f) == [stack EXCEPT ![Len(stack)] = f]

(***************************************************************************)
(* The solver process                                                      *)
(***************************************************************************)
\* what one run of the program leaves behind
Result(status, S, out) ==
    [solver |-> solver, status |-> status, output |-> out, B |-> S.B.set_elements,
     failed |-> S.failed \cup S.UndominatedDPQ.failed \cup S.CandidateDPQ.failed]

\* the process ends here: normally ("done"), by the exception of
\* fixed_order ("error"), or in undefined behaviour ("undefined")
Halt(status, S, out) ==
    /\ pc' = status
    /\ results' = Append(results, Result(status, S, out))
    /\ SetState(S)
    /\ output' = out

\* a solver object before solve() has run
Unsolved ==
    [G |-> [n |-> 0, neighbours |-> <<>>], D |-> reset_empty(0), B |-> reset_empty(0),
     covered |-> <<>>, fixed |-> <<>>, total_covered |-> 0, total_fixed |-> 0,
     max_deg |-> 0, UndominatedDPQ |-> Absent, CandidateDPQ |-> Absent,
     CandidateNeighbours |-> Absent, UndominatedSet |-> Absent, mdd_stack |-> Absent,
     failed |-> {}, ub |-> FALSE, forced |-> FALSE,
     released |-> <<>>]

\* solve(): set-up, force_in, force_out, then the first FindDominatingSet<true>
Solve ==
    /\ pc = "start"
    /\ \E S \in {IF solver.family = "FO" THEN FO_solve(inst, solver)
                 ELSE IF solver.family = "DD" THEN DD_solve(inst, solver)
                 ELSE MDD_solve(inst, solver)} :
          /\ depth_log' = [d \in 0..inst.G.n |-> 0]
          /\ retval' = 1
          /\ UNCHANGED <<inst, jobs, solver, main_vars>>
          /\ proxy' = [proxy EXCEPT !.initialize = @ + 1]
          /\ IF Undefined(S)
             THEN /\ Halt("undefined", S, <<>>)
                  /\ UNCHANGED stack
             ELSE /\ pc' = "search"
                  /\ SetState(S)
                  /\ output' = <<>>
                  /\ stack' = <<NewFrame(TRUE, 0, S, solver.family)>>
                  /\ UNCHANGED results

\* FindDominatingSet returns value r to its caller
ReturnFrom(S, r, out) ==
    /\ stack' = Pop
    /\ retval' = r
    /\ SetState(S)
    /\ output' = out
    /\ UNCHANGED <<pc, results>>

\* the frame goes on to its loop over neighbour_array
StartLoop(S, check, i, neighbour_array) ==
    /\ stack' = ReplaceTop([Top EXCEPT !.pc = "loop", !.check_resmod_depth = check,
                                       !.i = i, !.neighbour_array = neighbour_array,
                                       !.q = 1])
    /\ SetState(S)
    /\ UNCHANGED <<pc, results, retval, output>>

\* an output proxy before initialize; terminate_at = k > 0 is a proxy whose
\* k-th process_set throws TerminateOutput, 0 one that never throws (every
\* registered proxy)
OutputProxy(terminate_at) ==
    [terminate_at |-> terminate_at, initialize |-> 0, process_set |-> 0, finalize |-> 0]

\* the process_set about to be called is the one that throws
Throws == proxy.terminate_at = proxy.process_set + 1

\* Accepted with a set as large as B taken for an improvement
Accepted_not_larger(S) ==
    IF solver.GENERATE_ALL
    THEN VSsize(S.D) >= solver.total_lower_bound /\ VSsize(S.D) <= solver.total_upper_bound
    ELSE VSsize(S.D) >= solver.total_lower_bound /\ VSsize(S.D) <= VSsize(S.B)

\* the tests on the size of a dominating D before it is passed to
\* process_set
Accepted(S) ==
    IF solver.GENERATE_ALL
    THEN VSsize(S.D) >= solver.total_lower_bound /\ VSsize(S.D) <= solver.total_upper_bound
    ELSE VSsize(S.D) >= solver.total_lower_bound /\ VSsize(S.D) < VSsize(S.B)

\* process_set(D): TerminateOutput is caught nowhere, so it leaves
\* FindDominatingSet, solve() and main, and std::terminate ends the process
process_set(S) ==
    IF Throws
    THEN Halt("terminated", S, Append(output, S.D.set_elements)) /\ UNCHANGED <<stack, retval>>
    ELSE ReturnFrom(S, 1, Append(output, S.D.set_elements))

\* total_covered == n: D dominates
Complete(S) ==
    IF ~Accepted(S) THEN ReturnFrom(S, 1, output)
    ELSE IF solver.GENERATE_ALL THEN process_set(S)
    ELSE process_set([S EXCEPT !.B = S.D])

\* the rest of FindDominatingSet of fixed_order up to its loop
FO_branch(S, check) ==
    \E i \in {FO_next_uncovered(S, Top.first)} :
        IF i >= S.G.n
        THEN Halt("error", S, output) /\ UNCHANGED <<stack, retval>>
        ELSE IF ~FO_bounds_satisfied(S, solver)
             THEN ReturnFrom(S, 1, output)
             ELSE StartLoop(S, check, i, FO_neighbour_array(S, i))

\* the assertion on the pivot of a DD variant
DD_assert_pivot(S, i) ==
    Check(S, S.covered[i] = 0 /\ i < S.G.n /\ deg(S.G, i) > 0, "DD FindDominatingSet: pivot")

\* the rest of FindDominatingSet of the DD variants up to its loop
DD_branch(S, check) ==
    \E i \in {DD_choose_pivot(S, solver)} :
        IF i = INVALID_VERTEX
        THEN ReturnFrom(S, 1, output)
        ELSE IF ~solver.RECHECK_BOUNDS_IN_LOOP /\ ~DD_bounds_satisfied(S, solver)
             THEN ReturnFrom(DD_assert_pivot(S, i), 1, output)
             ELSE \E ranked \in {DD_rank_neighbours(S, solver, i)} :
                     IF ranked.ub
                     THEN Halt("undefined", DD_assert_pivot(S, i), output)
                          /\ UNCHANGED <<stack, retval>>
                     ELSE StartLoop([DD_assert_pivot(S, i) EXCEPT !.failed = @ \cup ranked.failed],
                                    check, i, ranked.neighbour_array)

\* the rest of FindDominatingSet of the MDD variants up to its loop
MDD_branch(S, check) ==
    \E bound_result \in {evaluate_bounds(S, solver)} :
        IF bound_result # 1
        THEN ReturnFrom(S, bound_result, output)
        ELSE \E i \in {choose_next_vertex(S, solver)} :
                IF i = INVALID_VERTEX
                THEN Halt("undefined", Check(S, FALSE, "MDD FindDominatingSet: assert(0)"),
                          output) /\ UNCHANGED <<stack, retval>>
                ELSE \E ranked \in {MDD_rank_neighbours(S, solver, i)} :
                        IF ranked.ub
                        THEN Halt("undefined", S, output) /\ UNCHANGED <<stack, retval>>
                        ELSE StartLoop([S EXCEPT !.failed = @ \cup ranked.failed], check, i,
                                       ranked.neighbour_array)

\* FindDominatingSet<check_resmod_depth> from its entry to its loop or to
\* an early return
FindDominatingSet(check) ==
    LET depth == VSsize(D)
        resmod_check == report_node(solver, depth_log, check, depth)
        S == IF check /\ resmod_check = -1
             THEN Check(State, depth < solver.resmod_depth, "report_node: depth")
             ELSE State
    IN /\ depth_log' = reported(solver, depth_log, check, depth)
       /\ UNCHANGED <<inst, jobs, solver, main_vars>>
       /\ proxy' = IF resmod_check # 0 /\ S.total_covered = S.G.n /\ Accepted(S)
                   THEN [proxy EXCEPT !.process_set = @ + 1]
                   ELSE proxy
       /\ IF resmod_check = 0
          THEN ReturnFrom(S, 1, output)
          ELSE IF S.total_covered = S.G.n
               THEN Complete(S)
               ELSE IF solver.family = "FO"
                    THEN FO_branch(S, check /\ resmod_check # 1)
                    ELSE IF solver.family = "DD"
                         THEN DD_branch(S, check /\ resmod_check # 1)
                         ELSE MDD_branch(S, check /\ resmod_check # 1)

\* the innermost call runs from its entry
Enter ==
    /\ pc = "search"
    /\ stack # <<>>
    /\ Top.pc = "enter"
    /\ FindDominatingSet(Top.check_resmod_depth)

\* the loop of a DD variant tests the bounds before each neighbour when
\* RECHECK_BOUNDS_IN_LOOP is set
LoopBreaks ==
    \/ Top.end_branch
    \/ /\ solver.family = "DD"
       /\ solver.RECHECK_BOUNDS_IN_LOOP
       /\ ~DD_bounds_satisfied(State, solver)

LoopContinues == Top.q <= Len(Top.neighbour_array) /\ ~LoopBreaks

\* one iteration of the loop over neighbour_array: add_vertex_to_set up to
\* its call of FindDominatingSet
Descend ==
    /\ pc = "search"
    /\ stack # <<>>
    /\ Top.pc = "loop"
    /\ LoopContinues
    /\ \E j \in {Top.neighbour_array[Top.q]} :
       \E S \in {IF solver.family = "FO" THEN FO_add_vertex_down(State, Top.i, j)
                 ELSE IF solver.family = "DD" THEN DD_add_vertex_down(State, j)
                 ELSE MDD_add_vertex_down(State, j)} :
       LET caller == [Top EXCEPT !.pc = "call", !.j = j, !.forced = S.forced,
                                 !.fixed_list = Append(@, j)]
       IN /\ UNCHANGED <<inst, jobs, solver, depth_log, retval, main_vars, proxy>>
          /\ IF Undefined(S)
             THEN Halt("undefined", S, output) /\ UNCHANGED stack
             ELSE /\ SetState(S)
                  /\ stack' = Append(ReplaceTop(caller),
                                     NewFrame(Top.check_resmod_depth, Top.i + 1, S,
                                              solver.family))
                  /\ UNCHANGED <<pc, results, output>>

\* the call made by add_vertex_to_set has returned: the rest of
\* add_vertex_to_set and the end of the loop body
Ascend ==
    /\ pc = "search"
    /\ stack # <<>>
    /\ Top.pc = "call"
    /\ \E S \in {IF solver.family = "FO" THEN FO_add_vertex_up(State, Top.j)
                 ELSE IF solver.family = "DD" THEN DD_add_vertex_up(State, Top.j)
                 ELSE MDD_add_vertex_up(State, Top.j)} :
       LET force_stop == Top.forced \/ (solver.family = "MDD" /\ retval = 0)
           stop == \/ solver.FORCE_STOP_ON_TRAPPED_VERTEX /\ force_stop
                   \/ /\ solver.family = "MDD"
                      /\ solver.RECHECK_BOUNDS_IN_LOOP
                      /\ evaluate_bounds(S, solver) # 1
       IN /\ UNCHANGED <<inst, jobs, solver, depth_log, retval, main_vars, proxy>>
          /\ IF Undefined(S)
             THEN Halt("undefined", S, output) /\ UNCHANGED stack
             ELSE /\ SetState(S)
                  /\ stack' = ReplaceTop([Top EXCEPT !.pc = "loop", !.q = @ + 1,
                                                     !.end_branch = stop,
                                                     !.trapped = @ \/ force_stop])
                  /\ UNCHANGED <<pc, results, output>>

\* the loop after the sibling loop, run by the innermost call
Released ==
    IF solver.family = "FO" THEN FO_unfix(State, Top.fixed_list, Len(Top.fixed_list))
    ELSE IF solver.family = "DD" THEN DD_restore(State, Top.fixed_list, 1)
    ELSE MDD_restore(State, Top.fixed_list, Len(Top.fixed_list))

\* the loop is over: the vertices of fixed_list are released and
\* FindDominatingSet returns
Return ==
    /\ pc = "search"
    /\ stack # <<>>
    /\ Top.pc = "loop"
    /\ ~LoopContinues
    /\ \E S \in {Released} :
          /\ UNCHANGED <<inst, jobs, solver, depth_log, main_vars, proxy>>
          /\ IF Undefined(S)
             THEN Halt("undefined", S, output) /\ UNCHANGED <<stack, retval>>
             ELSE ReturnFrom(S, 1, output)

\* the outermost FindDominatingSet has returned: output_proxy.finalize
Finalize ==
    /\ pc = "search"
    /\ stack = <<>>
    /\ Halt("done", State, output)
    /\ proxy' = [proxy EXCEPT !.finalize = @ + 1]
    /\ UNCHANGED <<inst, jobs, solver, depth_log, stack, retval, main_vars>>

\* the next solver process of a campaign is started on the same instance
NextJob ==
    /\ pc \in {"done", "error", "undefined"}
    /\ jobs # <<>>
    /\ solver' = Head(jobs)
    /\ jobs' = Tail(jobs)
    /\ pc' = "start"
    /\ SetState(Unsolved)
    /\ stack' = <<>>
    /\ output' = <<>>
    /\ retval' = 1
    /\ depth_log' = [d \in 0..inst.G.n |-> 0]
    /\ proxy' = OutputProxy(proxy.terminate_at)
    /\ UNCHANGED <<inst, results, main_vars>>

Next == Solve \/ Enter \/ Descend \/ Ascend \/ Return \/ Finalize

NextCampaign == Next \/ NextJob

(***************************************************************************)
(* Inputs                                                                  *)
(***************************************************************************)
Path(n) == InputGraph(n, {<<v, v + 1>> : v \in 0..(n - 2)})

Cycle(n) == InputGraph(n, {<<v, v + 1>> : v \in 0..(n - 2)} \cup {<<0, n - 1>>})

\* every simple graph on 1..MaxN vertices, and the paths and cycles on up
\* to MaxLong vertices
Graphs ==
    UNION {{InputGraph(n, E) : E \in SUBSET Pairs(n)} : n \in 1..MaxN}
    \cup {Path(n) : n \in (MaxN + 1)..MaxLong} \cup {Cycle(n) : n \in (MaxN + 1)..MaxLong}

SmallSubsets(S, k) == {T \in SUBSET S : Cardinality(T) <= k}

\* a VertexSet filled in ascending order
VertexSetOf(n, T) == VSadd_all(reset_empty(n), AscendingSeq(T), 1)

\* DominationInstance after the force_in and force_out filters have added
\* their vertices
DominationInstance(g, fin, fout) ==
    [G |-> g, force_in |-> VertexSetOf(g.n, fin), force_out |-> VertexSetOf(g.n, fout)]

Instances ==
    UNION {{DominationInstance(g, fin, fout) :
                fin \in SmallSubsets(Verts(g), MaxForce),
                fout \in SmallSubsets(Verts(g), MaxForce)} : g \in Graphs}

\* the filters do not compare the two sets; the instances run are those
\* with force_in and force_out disjoint
DisjointInstances ==
    {in \in Instances :
        Range(in.force_in.set_elements) \cap Range(in.force_out.set_elements) = {}}

UnforcedInstances == {DominationInstance(g, {}, {}) : g \in Graphs}

\* -l and -u
BoundSettings ==
    {[BBTFrameworkSolver EXCEPT !.total_lower_bound = l, !.total_upper_bound = u] :
        l \in 0..MaxLower, u \in 1..MaxUpper}

\* -mod, -res and -resmod_depth
ResModSettings(mod, res, depth) ==
    [BBTFrameworkSolver EXCEPT !.resmod_mod = mod, !.resmod_res = res,
                               !.resmod_depth = depth]

(***************************************************************************)
(* The queen input source (queen_graphs.cpp)                               *)
(***************************************************************************)
\* the cells read_next visits for cell (vi, vj), as <<row, column>>, before
\* the tests on the board's edge: row vi, column vj, then k = -n..n-1 along
\* the forward and along the backward diagonal
Row(n, vi) == [k \in 1..n |-> <<vi, k - 1>>]

Column(n, vj) == [k \in 1..n |-> <<k - 1, vj>>]

ForwardDiagonal(n, vi, vj) == [k \in 1..(2 * n) |-> <<vi + (k - 1 - n), vj + (k - 1 - n)>>]

BackwardDiagonal(n, vi, vj) == [k \in 1..(2 * n) |-> <<vi + (k - 1 - n), vj - (k - 1 - n)>>]

OnBoard(n, cell) == cell[1] >= 0 /\ cell[1] < n /\ cell[2] >= 0 /\ cell[2] < n

\* QueenCells without the two diagonals: the moves of a rook
QueenCells_rook(n, vi, vj) ==
    LET reached(cell) == OnBoard(n, cell) /\ cell # <<vi, vj>>
    IN SelectSeq(Row(n, vi) \o Column(n, vj), reached)

\* the cells pushed to the neighbour list of (vi, vj), in order
QueenCells(n, vi, vj) ==
    LET reached(cell) == OnBoard(n, cell) /\ cell # <<vi, vj>>
    IN SelectSeq(Row(n, vi) \o Column(n, vj) \o ForwardDiagonal(n, vi, vj)
                    \o BackwardDiagonal(n, vi, vj), reached)

\* the neighbour list of vertex v = vi*n + vj
QueenNeighbours(n, v) ==
    LET cells == QueenCells(n, v \div n, v % n)
    IN [k \in 1..Len(cells) |-> cells[k][1] * n + cells[k][2]]

\* QueenGraphInputSource::read_next with -n n: the graph, and both force
\* sets empty
QueenGraphInputSource(n) ==
    [G |-> [n |-> n * n, neighbours |-> [v \in 0..(n * n - 1) |-> QueenNeighbours(n, v)]],
     force_in |-> reset_empty(n * n), force_out |-> reset_empty(n * n)]

(***************************************************************************)
(* Graph text format (graph_util.cpp).  A text is a sequence of            *)
(* one-character strings; a stream is a text, the read position and the    *)
(* fail bit.                                                               *)
(***************************************************************************)
MAX_DEGREE == 1024

DigitChars == <<"0", "1", "2", "3", "4", "5", "6", "7", "8", "9">>

IsDigit(c) == \E d \in 1..10 : DigitChars[d] = c

DigitValue(c) == (CHOOSE d \in 1..10 : DigitChars[d] = c) - 1

IsSpace(c) == c \in {" ", "\n"}

endl == <<"\n">>

\* the decimal digits of k >= 0, most significant first
RECURSIVE Digits(_)
Digits(k) ==
    IF k < 10 THEN <<DigitChars[k + 1]>>
    ELSE Append(Digits(k \div 10), DigitChars[(k % 10) + 1])

\* f << k for an int k
ostream_int(k) == IF k < 0 THEN <<"-">> \o Digits(-k) ELSE Digits(k)

\* write_neighbours without the " " after each neighbour
RECURSIVE write_neighbours_unseparated(_, _)
write_neighbours_unseparated(lst, j) ==
    IF j > Len(lst) THEN <<>>
    ELSE ostream_int(lst[j]) \o write_neighbours_unseparated(lst, j + 1)

\* write_graph, the loop over v.neighbours()
RECURSIVE write_neighbours(_, _)
write_neighbours(lst, j) ==
    IF j > Len(lst) THEN <<>>
    ELSE ostream_int(lst[j]) \o <<" ">> \o write_neighbours(lst, j + 1)

\* write_graph, the loop over g.V()
RECURSIVE write_vertices(_, _)
write_vertices(g, v) ==
    IF v >= g.n THEN <<>>
    ELSE ostream_int(Len(g.neighbours[v])) \o <<" ">> \o write_neighbours(g.neighbours[v], 1)
         \o endl \o write_vertices(g, v + 1)

write_graph(g) == ostream_int(g.n) \o endl \o write_vertices(g, 0)

istream(text) == [text |-> text, pos |-> 1, fail |-> FALSE]

RECURSIVE skipws(_, _)
skipws(text, p) ==
    IF p > Len(text) \/ ~IsSpace(text[p]) THEN p ELSE skipws(text, p + 1)

RECURSIVE scan_digits(_, _)
scan_digits(text, p) ==
    IF p > Len(text) \/ ~IsDigit(text[p]) THEN p ELSE scan_digits(text, p + 1)

\* the number whose digits are text[p..q-1], with sign sgn (1 or -1);
\* range is set once the value has left the range of int
RECURSIVE digits_value(_, _, _, _, _)
digits_value(text, p, q, acc, sgn) ==
    IF p >= q \/ acc.range THEN acc
    ELSE LET d == DigitValue(text[p])
         IN  IF \/ acc.v > 214748364 \/ (acc.v = 214748364 /\ d > 7 /\ sgn = 1)
                \/ acc.v < 0 - 214748364 \/ (acc.v = 0 - 214748364 /\ d > 8)
             THEN [range |-> TRUE, v |-> 0]
             ELSE digits_value(text, p + 1, q,
                               [range |-> FALSE, v |-> acc.v * 10 + sgn * d], sgn)

\* the number at the front of text as strtol, operator>> and stoi take it:
\* leading whitespace is skipped, then an optional sign and the digits are
\* taken.  digits is false when there is no digit, range is true when the
\* value does not fit an int, e is the position after the last digit.
scan_result(q, e, n) == [digits |-> e > q, range |-> n.range, value |-> n.v, e |-> e]

\* text[q..e-1] are the digits, text[p] the sign if q > p
scan_value(text, p, q, e) ==
    scan_result(q, e, digits_value(text, q, e, [range |-> FALSE, v |-> 0],
                                   IF q > p /\ text[p] = "-" THEN 0 - 1 ELSE 1))

scan_signed(text, p) ==
    IF p <= Len(text) /\ text[p] \in {"-", "+"}
    THEN scan_value(text, p, p + 1, scan_digits(text, p + 1))
    ELSE scan_value(text, p, p, scan_digits(text, p))

scan_int(text, from) == scan_signed(text, skipws(text, from))

\* f >> x for an int x: no digit, or a value that does not fit an int, sets
\* the fail bit.  A stream that has failed extracts nothing.
extracted(f, x) ==
    IF f.fail THEN [ok |-> FALSE, value |-> 0, f |-> f]
    ELSE IF ~x.digits \/ x.range
    THEN [ok |-> FALSE, value |-> 0, f |-> [f EXCEPT !.pos = x.e, !.fail = TRUE]]
    ELSE [ok |-> TRUE, value |-> x.value, f |-> [f EXCEPT !.pos = x.e]]

istream_int(f) == extracted(f, scan_int(f.text, f.pos))

\* Graph::reset
Graph_reset(new_size) ==
    [n |-> new_size, neighbours |-> [v \in 0..(new_size - 1) |-> <<>>]]

\* read_graph, the loop over j; r is the result so far: ok, g and f
RECURSIVE read_neighbours(_, _, _, _)
read_neighbours(r, i, j, d) ==
    IF j >= d \/ ~r.ok THEN r
    ELSE LET u == istream_int(r.f)
         IN  IF ~u.ok \/ u.value < 0 \/ u.value >= MAX_DEGREE
             THEN [ok |-> FALSE, g |-> r.g, f |-> u.f]
             ELSE read_neighbours(
                      [ok |-> TRUE, f |-> u.f,
                       g |-> [r.g EXCEPT !.neighbours[i] = Append(@, u.value)]],
                      i, j + 1, d)

\* read_graph, the loop over i
RECURSIVE read_vertices(_, _)
read_vertices(r, i) ==
    IF i >= r.g.n \/ ~r.ok THEN r
    ELSE LET d == istream_int(r.f)
         IN  IF ~d.ok \/ d.value < 0 \/ d.value >= MAX_DEGREE
             THEN [ok |-> FALSE, g |-> r.g, f |-> d.f]
             ELSE read_vertices(read_neighbours([r EXCEPT !.f = d.f], i, 0, d.value), i + 1)

\* read_graph(f, g): ok is the value returned, g and f are as it leaves them
read_graph(f, g) ==
    LET n == istream_int(f)
    IN  IF ~n.ok \/ n.value < 0 \/ n.value >= MAX_VERTS
        THEN [ok |-> FALSE, g |-> g, f |-> n.f]
        ELSE read_vertices([ok |-> TRUE, g |-> Graph_reset(n.value), f |-> n.f], 0)

(***************************************************************************)
(* The command line (parse_arguments.cpp, main.cpp).  A token is a         *)
(* sequence of one-character strings, so that substr and stoi work on the  *)
(* characters as the code does.                                            *)
(***************************************************************************)
nullptr == <<>>

s_seed == <<"-", "s", "e", "e", "d">>
s_h == <<"-", "h">>
s_help == <<"-", "h", "e", "l", "p">>
s_I == <<"-", "I">>
s_S == <<"-", "S">>
s_F == <<"-", "F">>
s_O == <<"-", "O">>
s_x == <<"-", "x">>
s_res == <<"-", "r", "e", "s">>
s_mod == <<"-", "m", "o", "d">>
s_resmod_depth == <<"-", "r", "e", "s", "m", "o", "d", "_", "d", "e", "p", "t", "h">>
s_u == <<"-", "u">>
s_max == <<"-", "m", "a", "x">>
s_l == <<"-", "l">>
s_min == <<"-", "m", "i", "n">>
s_quiet == <<"-", "q", "u", "i", "e", "t">>
s_verbose == <<"-", "v", "e", "r", "b", "o", "s", "e">>
s_stats == <<"-", "s", "t", "a", "t", "s">>
s_nostats == <<"-", "n", "o", "s", "t", "a", "t", "s">>
s_basic_input == <<"b", "a", "s", "i", "c", "_", "i", "n", "p", "u", "t">>
s_fixed_order == <<"f", "i", "x", "e", "d", "_", "o", "r", "d", "e", "r">>
s_DD_minCD_asc == <<"D", "D", "_", "m", "i", "n", "C", "D", "_", "a", "s", "c">>
s_output_all == <<"o", "u", "t", "p", "u", "t", "_", "a", "l", "l">>
s_force_in == <<"f", "o", "r", "c", "e", "_", "i", "n">>
s_force_out == <<"f", "o", "r", "c", "e", "_", "o", "u", "t">>
s_nosuch == <<"n", "o", "s", "u", "c", "h">>

default_input_source == s_basic_input
default_solver == s_fixed_order
default_output_proxy == s_output_all

\* the components the command lines of the model name, of those registered
InputSources == {s_basic_input}
OutputProxies == {s_output_all}
PreprocessFilters == {s_force_in, s_force_out}
Solvers ==
    [name : {s_fixed_order}, variant : {OptimizationVariants[1]}]
    \cup [name : {s_DD_minCD_asc}, variant : {OptimizationVariants[2]}]

component_exists(registry, name) == name \in registry

spawn_solver(name) ==
    IF \E c \in Solvers : c.name = name
    THEN SolverWith((CHOOSE c \in Solvers : c.name = name).variant, BBTFrameworkSolver)
    ELSE nullptr

\* s.substr(0, 2)
substr_0_2(s) == SubSeq(s, 1, IF Len(s) < 2 THEN Len(s) ELSE 2)

is_root_argument(s) ==
    \/ s = s_seed \/ s = s_h \/ s = s_help
    \/ substr_0_2(s) \in {s_I, s_S, s_F, s_O}

\* std::stoi on a token: what is thrown, and the value
stoi_result(x) ==
    IF ~x.digits THEN [thrown |-> "invalid_argument", value |-> 0]
    ELSE IF x.range THEN [thrown |-> "out_of_range", value |-> 0]
    ELSE [thrown |-> "none", value |-> x.value]

stoi(arg) == stoi_result(scan_int(arg, 1))

\* (unsigned int)std::stoul on a token, for the values up to INT_MAX
stoul_result(x) ==
    IF ~x.digits THEN [thrown |-> "invalid_argument", value |-> 0]
    ELSE [thrown |-> "none", value |-> x.value]

stoul(arg) == stoul_result(scan_int(arg, 1))

ArgumentParsingException(m, idx) ==
    [thrown |-> "ArgumentParsingException", message |-> m, argument_idx |-> idx]

NoException == [thrown |-> "none", message |-> "", argument_idx |-> 0]

\* a tokenizer: the tokens, current_idx and base_idx
StackedArgumentTokenizer(arg_vector, idx, base_index) ==
    [args |-> arg_vector, current_idx |-> idx, base_idx |-> base_index]

has_next(T) == T.current_idx < Len(T.args)

\* what a get_next_* leaves: the tokenizer after it, the value, what is thrown
taken(T, x, m) ==
    [T |-> [T EXCEPT !.current_idx = @ + 1], value |-> x.value,
     e |-> IF x.thrown = "invalid_argument"
           THEN ArgumentParsingException(m, T.current_idx + 1 + T.base_idx)
           ELSE IF x.thrown = "out_of_range"
           THEN [NoException EXCEPT !.thrown = "out_of_range"]
           ELSE NoException]

get_next_unsigned_int(T) ==
    IF T.current_idx >= Len(T.args)
    THEN [T |-> T, value |-> 0,
          e |-> ArgumentParsingException("Expected positive integer",
                                         T.current_idx + T.base_idx)]
    ELSE taken(T, stoul(T.args[T.current_idx + 1]), "Expected a positive integer, not")

get_next_int(T) ==
    IF T.current_idx >= Len(T.args)
    THEN [T |-> T, value |-> 0,
          e |-> ArgumentParsingException("Expected integer", T.current_idx + T.base_idx)]
    ELSE taken(T, stoi(T.args[T.current_idx + 1]), "Expected an integer, not")

\* a component being configured: kind is "input_source", "solver",
\* "preprocess_filter" or "output_proxy", obj its members
Component(kind, name, obj) == [kind |-> kind, name |-> name, obj |-> obj]

\* BBTFrameworkSolver::accept_argument: a setting that takes a number
SettingOf(arg) ==
    IF arg = s_res THEN "resmod_res"
    ELSE IF arg = s_mod THEN "resmod_mod"
    ELSE IF arg = s_resmod_depth THEN "resmod_depth"
    ELSE IF arg \in {s_u, s_max} THEN "total_upper_bound"
    ELSE IF arg \in {s_l, s_min} THEN "total_lower_bound"
    ELSE ""

\* BBTFrameworkSolver::accept_argument on a setting that takes a number, x
\* being what get_next_unsigned_int gave
accept_setting(c, setting, x) ==
    [accepted |-> x.e.thrown = "none", T |-> x.T, e |-> x.e,
     c |-> IF x.e.thrown = "none" THEN [c EXCEPT !.obj[setting] = x.value] ELSE c]

\* ForceInFilter::accept_argument and ForceOutFilter::accept_argument, x
\* being what stoi(arg) gave
accept_vertex(c, T, x) ==
    IF x.thrown = "invalid_argument"
    THEN [accepted |-> FALSE, T |-> T, e |-> NoException, c |-> c]
    ELSE IF x.thrown = "out_of_range"
    THEN [accepted |-> FALSE, T |-> T, c |-> c,
          e |-> [NoException EXCEPT !.thrown = "out_of_range"]]
    ELSE [accepted |-> TRUE, T |-> T, e |-> NoException,
          c |-> [c EXCEPT !.obj.vertices = Append(@, x.value)]]

\* accept_argument of the component c on arg, already taken from T: what it
\* returns, the component and the tokenizer after it, and what is thrown
accept_argument(c, arg, T) ==
    IF c.kind = "solver" /\ SettingOf(arg) # ""
    THEN accept_setting(c, SettingOf(arg), get_next_unsigned_int(T))
    ELSE IF c.kind = "solver" /\ arg \in {s_quiet, s_verbose}
    THEN [accepted |-> TRUE, T |-> T, e |-> NoException, c |-> c]
    ELSE IF c.kind = "output_proxy" /\ arg \in {s_stats, s_nostats}
    THEN [accepted |-> TRUE, T |-> T, e |-> NoException, c |-> c]
    ELSE IF c.kind = "preprocess_filter" THEN accept_vertex(c, T, stoi(arg))
    ELSE [accepted |-> FALSE, T |-> T, e |-> NoException, c |-> c]

\* Configurable::parse_arguments: r is [accepted, T, e, c] so far
RECURSIVE Configurable_parse_arguments(_)
Configurable_parse_arguments(r) ==
    IF ~has_next(r.T) \/ ~r.accepted \/ r.e.thrown # "none" THEN r
    ELSE Configurable_parse_arguments(
             accept_argument(r.c, r.T.args[r.T.current_idx + 1],
                             [r.T EXCEPT !.current_idx = @ + 1]))

\* the loop of stack_argument_parse: the index after the sub-arguments
RECURSIVE sub_args_end(_)
sub_args_end(S) ==
    IF ~has_next(S) \/ is_root_argument(S.args[S.current_idx + 1]) THEN S
    ELSE sub_args_end([S EXCEPT !.current_idx = @ + 1])

\* stack_argument_parse, after component.parse_arguments(sub_tokenizer) has
\* left r
stack_result(S1, r) ==
    [S |-> S1, c |-> r.c,
     e |-> IF r.e.thrown # "none" THEN r.e
           ELSE IF ~r.accepted
           THEN ArgumentParsingException("Invalid argument",
                    Max(0, (r.T.current_idx + r.T.base_idx) - 1))
           ELSE NoException]

\* stack_argument_parse, S1 being S after the loop that collects sub_args
parse_sub_args(S, S1, component) ==
    stack_result(S1, Configurable_parse_arguments(
        [accepted |-> TRUE, e |-> NoException, c |-> component,
         T |-> StackedArgumentTokenizer(SubSeq(S.args, S.current_idx + 1, S1.current_idx),
                   0, (S1.current_idx + S1.base_idx) - (S1.current_idx - S.current_idx))]))

\* stack_argument_parse(S, component): the tokenizer S and the component
\* after it, and what is thrown
stack_argument_parse(S, component) == parse_sub_args(S, sub_args_end(S), component)

\* a line written to unidom::log
LogLine(text, arg) == [text |-> text, arg |-> arg]

\* what one pass through the loop of parse_arguments leaves: the context,
\* the solver object, the tokenizer, the lines logged, whether the function
\* returned false, and what was thrown
ParseResult(Cx, sv, S, lines, returned, e) ==
    [C |-> Cx, solver |-> sv, S |-> S, log |-> lines, returned |-> returned, e |-> e]

Registered(kind, name) ==
    IF kind = "input_source" THEN component_exists(InputSources, name)
    ELSE IF kind = "solver" THEN \E c \in Solvers : c.name = name
    ELSE IF kind = "preprocess_filter" THEN component_exists(PreprocessFilters, name)
    ELSE component_exists(OutputProxies, name)

\* a spawned component has parsed its sub-arguments and left r
spawned(Cx, sv, kind, name, r) ==
    ParseResult(
        IF kind = "preprocess_filter"
        THEN [Cx EXCEPT !.preprocess_filters =
                  Append(@, [name |-> name, vertices |-> r.c.obj.vertices])]
        ELSE [Cx EXCEPT ![kind] = name],
        IF kind = "solver" THEN r.c.obj ELSE sv,
        r.S, <<>>, FALSE, r.e)

\* the members of a component as spawned
spawn(kind, name) ==
    IF kind = "solver" THEN spawn_solver(name)
    ELSE IF kind = "preprocess_filter" THEN [vertices |-> <<>>]
    ELSE <<>>

\* the branches s2 == "-I", "-S", "-F" and "-O": the name is taken, the
\* component is spawned and stored in the context (a filter is pushed
\* back), and it parses the sub-arguments that follow
spawn_branch(Cx, sv, S, kind) ==
    IF ~has_next(S)
    THEN ParseResult(Cx, sv, S, <<>>, FALSE,
                     ArgumentParsingException("Expected string", S.current_idx + S.base_idx))
    ELSE LET name == S.args[S.current_idx + 1]
             S2 == [S EXCEPT !.current_idx = @ + 1]
         IN  IF kind # "preprocess_filter" /\ Cx[kind] # nullptr
             THEN ParseResult(Cx, sv, S2, <<LogLine("Duplicate", name)>>, TRUE, NoException)
             ELSE IF ~Registered(kind, name)
             THEN ParseResult(Cx, sv, S2, <<LogLine("Invalid", name)>>, TRUE, NoException)
             ELSE spawned(Cx, sv, kind, name,
                          stack_argument_parse(S2, Component(kind, name, spawn(kind, name))))

\* the branch s == "-seed", x being what get_next_int gave
seeded(Cx, sv, x) == ParseResult(Cx, sv, x.T, <<>>, FALSE, x.e)

\* the body of the while loop of parse_arguments, S.has_next() being true
parse_argument(Cx, sv, S) ==
    LET s == S.args[S.current_idx + 1]
        S1 == [S EXCEPT !.current_idx = @ + 1]
    IN  IF s = s_seed THEN seeded(Cx, sv, get_next_int(S1))
        ELSE IF s = s_help \/ s = s_h
        THEN ParseResult(Cx, sv, S1, <<LogLine("Available components:", <<>>)>>, TRUE,
                         NoException)
        ELSE IF substr_0_2(s) = s_I THEN spawn_branch(Cx, sv, S1, "input_source")
        ELSE IF substr_0_2(s) = s_S THEN spawn_branch(Cx, sv, S1, "solver")
        ELSE IF substr_0_2(s) = s_F THEN spawn_branch(Cx, sv, S1, "preprocess_filter")
        ELSE IF substr_0_2(s) = s_O THEN spawn_branch(Cx, sv, S1, "output_proxy")
        ELSE ParseResult(Cx, sv, S1, <<>>, FALSE,
                         ArgumentParsingException("Invalid argument",
                                                  S1.current_idx + S1.base_idx))

\* the catch block of parse_arguments: the line logged for e
catch_line(argv, e) ==
    IF e.argument_idx >= Len(argv) THEN LogLine("Too few arguments:", e.message)
    ELSE IF e.argument_idx > 0
    THEN LogLine("Error parsing arguments (after", argv[e.argument_idx])
    ELSE LogLine("Error parsing arguments (first argument):", e.message)

\* ForceInFilter::process and ForceOutFilter::process on the set named
RECURSIVE Force_process(_, _, _, _)
Force_process(r, set, vertices, k) ==
    IF k > Len(vertices) \/ r.thrown # "none" THEN r
    ELSE IF vertices[k] < 0 \/ vertices[k] >= r.inst.G.n
    THEN [r EXCEPT !.thrown = "ConfigurableError"]
    ELSE Force_process(
             IF contains(r.inst[set], vertices[k]) THEN r
             ELSE [r EXCEPT !.inst[set] = VSadd(@, vertices[k])],
             set, vertices, k + 1)

\* main: for(auto F: C.preprocess_filters) F->process(inst)
RECURSIVE process_filters(_, _, _)
process_filters(r, filters, k) ==
    IF k > Len(filters) \/ r.thrown # "none" THEN r
    ELSE process_filters(
             Force_process(r, IF filters[k].name = s_force_in THEN "force_in"
                              ELSE "force_out", filters[k].vertices, 1),
             filters, k + 1)

\* a campaign: the instance and the solver processes run on it in turn
Plan(in, solvers) == [inst |-> in, jobs |-> solvers, terminate_at |-> 0]

\* SolverContext as constructed: nothing spawned yet
SolverContext ==
    [input_source |-> nullptr, preprocess_filters |-> <<>>, solver |-> nullptr,
     output_proxy |-> nullptr, original_input_graph |-> Graph_reset(0)]

\* a generation variant run alone and then as workers 0..mod-1
ResModJobs(v, mod, depth) ==
    <<SolverWith(v, BBTFrameworkSolver)>>
    \o [res \in 1..mod |-> SolverWith(v, ResModSettings(mod, res - 1, depth))]

\* every optimization variant in turn
VariantJobs ==
    [k \in DOMAIN OptimizationVariants |->
        SolverWith(OptimizationVariants[k], BBTFrameworkSolver)]

\* the process as main() finds it: at the step named, with the command line,
\* the SolverContext and the text on standard input given
StartAt(plan, at, argv, context, text) ==
    /\ inst = plan.inst
    /\ solver = Head(plan.jobs)
    /\ jobs = Tail(plan.jobs)
    /\ results = <<>>
    /\ pc = at
    /\ G = Unsolved.G
    /\ D = Unsolved.D
    /\ B = Unsolved.B
    /\ covered = Unsolved.covered
    /\ fixed = Unsolved.fixed
    /\ total_covered = Unsolved.total_covered
    /\ total_fixed = Unsolved.total_fixed
    /\ max_deg = Unsolved.max_deg
    /\ UndominatedDPQ = Unsolved.UndominatedDPQ
    /\ CandidateDPQ = Unsolved.CandidateDPQ
    /\ CandidateNeighbours = Unsolved.CandidateNeighbours
    /\ UndominatedSet = Unsolved.UndominatedSet
    /\ mdd_stack = Unsolved.mdd_stack
    /\ depth_log = [d \in 0..plan.inst.G.n |-> 0]
    /\ stack = <<>>
    /\ retval = 1
    /\ output = <<>>
    /\ failed = {}
    /\ proxy = OutputProxy(plan.terminate_at)
    /\ args = argv
    /\ current_idx = 0
    /\ C = context
    /\ cin = istream(text)
    /\ unidom_log = <<>>
    /\ exit_status = "running"

\* a solver process about to run on plan.inst
Start(plan) == StartAt(plan, "start", <<>>, SolverContext, <<>>)

\* one solver process on one instance: any registered variant with the
\* default settings on any instance, or with -l and -u on an unforced one
Init ==
    \/ \E in \in DisjointInstances, v \in RegisteredVariants :
          Start(Plan(in, <<SolverWith(v, BBTFrameworkSolver)>>))
    \/ \E in \in UnforcedInstances, v \in RegisteredVariants, b \in BoundSettings :
          Start(Plan(in, <<SolverWith(v, b)>>))

InitResMod ==
    \E in \in DisjointInstances, v \in Range(GenerationVariants),
       mod \in 1..MaxMod, depth \in 0..MaxDepth :
          Start(Plan(in, ResModJobs(v, mod, depth)))

InitVariants == \E in \in DisjointInstances : Start(Plan(in, VariantJobs))

\* one solver process whose output proxy throws TerminateOutput from one of
\* its first MaxTerminate calls of process_set
\* the MDD variants on instances with up to MaxForceIn vertices forced in:
\* two forced vertices can dominate a graph without either being adjacent to
\* every vertex
MDDVariants == {v \in RegisteredVariants : v.family = "MDD"}

ConditionedInstances ==
    UNION {{in \in {DominationInstance(g, fin, fout) :
                        fin \in SmallSubsets(Verts(g), MaxForceIn),
                        fout \in SmallSubsets(Verts(g), MaxForce)} :
                Range(in.force_in.set_elements) \cap Range(in.force_out.set_elements) = {}} :
           g \in Graphs}

InitConditioned ==
    \E in \in ConditionedInstances, v \in MDDVariants :
        Start(Plan(in, <<SolverWith(v, BBTFrameworkSolver)>>))

InitProxy ==
    \E in \in DisjointInstances, v \in RegisteredVariants, t \in 1..MaxTerminate :
        Start([Plan(in, <<SolverWith(v, BBTFrameworkSolver)>>) EXCEPT !.terminate_at = t])

\* every optimization variant in turn on the 4x4 queen graph
InitQueen == Start(Plan(QueenGraphInputSource(4), VariantJobs))

Spec == Init /\ [][Next]_vars

SpecResMod == InitResMod /\ [][NextCampaign]_vars

SpecVariants == InitVariants /\ [][NextCampaign]_vars

SpecQueen == InitQueen /\ [][NextCampaign]_vars

SpecProxy == InitProxy /\ [][Next]_vars

SpecConditioned == InitConditioned /\ [][Next]_vars

(***************************************************************************)
(* Writing a graph and reading it back: output_best writes                 *)
(* original_input_graph with write_graph, basic_input reads inst.G with    *)
(* read_graph                                                              *)
(***************************************************************************)
run_vars ==
    <<jobs, results, G, D, B, covered, fixed, total_covered, total_fixed,
      max_deg, UndominatedDPQ, CandidateDPQ, CandidateNeighbours, UndominatedSet,
      mdd_stack, depth_log, stack, retval, output, failed, proxy>>

solver_vars == <<solver, run_vars>>

\* entries of the adjacency lists written: one, two and four digits, the
\* largest value read_graph takes and the smallest it refuses
IOValues == {0, 10, MAX_DEGREE - 1, MAX_DEGREE}

IOLists == UNION {[1..k -> IOValues] : k \in 0..MaxIOLen}

RECURSIVE TotalDeg(_, _)
TotalDeg(nb, v) == IF v < 0 THEN 0 ELSE Len(nb[v]) + TotalDeg(nb, v - 1)

\* the graphs with at most MaxIOVerts vertices and MaxIOLen entries in
\* all, and one with two-digit n and degrees
IOGraphs ==
    UNION {{[n |-> n, neighbours |-> nb] :
                nb \in {f \in [0..(n - 1) -> IOLists] : TotalDeg(f, n - 1) <= MaxIOLen}} :
           n \in 0..MaxIOVerts}
    \cup {QueenGraphInputSource(4).G}

\* SimpleGraphInputSource::read_next on the stream f
SimpleGraphInputSource_read_next(f, in) ==
    LET r == read_graph(f, in.G)
    IN  [ok |-> r.ok, f |-> r.f, inst |-> DominationInstance(r.g, {}, {})]

InitGraphIO ==
    \E g \in IOGraphs :
        StartAt(Plan(DominationInstance(Graph_reset(0), {}, {}), VariantJobs), "write",
                <<>>, [SolverContext EXCEPT !.original_input_graph = g], <<>>)

\* std::cout << original_input_graph, the text then being the reader's
\* standard input
WriteGraph ==
    /\ pc = "write"
    /\ cin' = istream(write_graph(C.original_input_graph))
    /\ pc' = "read"
    /\ UNCHANGED <<inst, solver_vars, args, current_idx, C, unidom_log, exit_status>>

ReadGraph ==
    /\ pc = "read"
    /\ \E r \in {SimpleGraphInputSource_read_next(cin, inst)} :
          /\ inst' = r.inst
          /\ cin' = r.f
          /\ pc' = IF r.ok THEN "read_ok" ELSE "read_failed"
    /\ UNCHANGED <<solver_vars, args, current_idx, C, unidom_log, exit_status>>

NextGraphIO == WriteGraph \/ ReadGraph

SpecGraphIO == InitGraphIO /\ [][NextGraphIO]_vars

(***************************************************************************)
(* Renumbering: a RenumberFilter whose compute_new_numbering returns       *)
(* permuted_numbering, applied with Graph::renumber.  A graph carries the  *)
(* real_index of each vertex here                                          *)
(***************************************************************************)
\* the loop inverse_perm[permutation.at(i)] = i
RECURSIVE inverse_perm(_, _, _)
inverse_perm(permutation, inv, i) ==
    IF i >= Len(inv) THEN inv
    ELSE inverse_perm(permutation, [inv EXCEPT ![permutation[i] + 1] = i], i + 1)

\* Graph::renumber with the neighbours passed through the permutation
\* itself instead of its inverse
Graph_renumber_forward(g, permutation) ==
    [n |-> g.n,
     neighbours |-> [i \in Verts(g) |->
        [k \in 1..Len(g.neighbours[permutation[i]]) |->
            permutation[g.neighbours[permutation[i]][k]]]],
     real_index |-> [i \in Verts(g) |-> g.real_index[permutation[i]]]]

\* Graph::renumber(permutation, result): the value of result
Graph_renumber(g, permutation) ==
    LET inv == inverse_perm(permutation, [k \in 1..g.n |-> 0], 0)
    IN [n |-> g.n,
        neighbours |-> [i \in Verts(g) |->
            [k \in 1..Len(g.neighbours[permutation[i]]) |->
                inv[g.neighbours[permutation[i]][k] + 1]]],
        real_index |-> [i \in Verts(g) |-> g.real_index[permutation[i]]]]

\* the renumbered force set: `for(VertIndex v: set) new_set.add(inverse_perm[v])`
RECURSIVE renumbered_set(_, _, _, _)
renumbered_set(s, lst, inv, k) ==
    IF k > Len(lst) THEN s ELSE renumbered_set(VSadd(s, inv[lst[k] + 1]), lst, inv, k + 1)

\* RenumberFilter::process with compute_new_numbering returning
\* permuted_numbering
RenumberFilter_process(in, permuted_numbering) ==
    LET n == in.G.n
        inv == inverse_perm(permuted_numbering, [k \in 1..n |-> 0], 0)
    IN [G |-> Graph_renumber(in.G, permuted_numbering),
        force_in |-> renumbered_set(reset_empty(n), in.force_in.set_elements, inv, 1),
        force_out |-> renumbered_set(reset_empty(n), in.force_out.set_elements, inv, 1)]

RenumberFilter(permuted_numbering) ==
    [name |-> "renumber", permuted_numbering |-> permuted_numbering]

\* the permutations of [0, n) and the inverse of one
PermutationsOf(n) ==
    {f \in [0..(n - 1) -> 0..(n - 1)] : \A a, b \in 0..(n - 1) : f[a] = f[b] => a = b}

InverseOf(f) == [u \in DOMAIN f |-> CHOOSE i \in DOMAIN f : f[i] = u]

\* the simple graphs on up to MaxRenumber vertices, numbered as reset
\* numbers them or in reverse (as a renumbering leaves them)
RenumberGraphs ==
    UNION {{[n |-> g.n, neighbours |-> g.neighbours, real_index |-> r] :
                g \in {InputGraph(n, E) : E \in SUBSET Pairs(n)},
                r \in {[i \in 0..(n - 1) |-> i], [i \in 0..(n - 1) |-> n - 1 - i]}} :
           n \in 0..MaxRenumber}

\* two filters: one renumbering by a permutation, one by its inverse
InitRenumber ==
    \E g \in RenumberGraphs :
    \E f \in PermutationsOf(g.n) :
    \E fin \in SmallSubsets(Verts(g), MaxForce) :
        StartAt(Plan(DominationInstance(g, fin, {}), VariantJobs), "renumber", <<>>,
                [SolverContext EXCEPT !.original_input_graph = g,
                                      !.preprocess_filters =
                                          <<RenumberFilter(f), RenumberFilter(InverseOf(f))>>],
                <<>>)

\* the first filter processes inst
Renumber ==
    /\ pc = "renumber"
    /\ inst' = RenumberFilter_process(inst, C.preprocess_filters[1].permuted_numbering)
    /\ pc' = "renumbered"
    /\ UNCHANGED <<solver_vars, args, current_idx, C, cin, unidom_log, exit_status>>

\* the second filter processes what the first has left
RenumberBack ==
    /\ pc = "renumbered"
    /\ inst' = RenumberFilter_process(inst, C.preprocess_filters[2].permuted_numbering)
    /\ pc' = "restored"
    /\ UNCHANGED <<solver_vars, args, current_idx, C, cin, unidom_log, exit_status>>

NextRenumber == Renumber \/ RenumberBack

SpecRenumber == InitRenumber /\ [][NextRenumber]_vars

(***************************************************************************)
(* A VertexSet on its own: D is constructed and then operated on, each     *)
(* operation within its asserted precondition, with the vertices           *)
(* 0..MaxSetVerts-1                                                        *)
(***************************************************************************)
set_vars ==
    <<inst, jobs, results, solver, G, B, covered, fixed, total_covered, total_fixed,
      max_deg, UndominatedDPQ, CandidateDPQ, CandidateNeighbours, UndominatedSet,
      mdd_stack, depth_log, stack, retval, output, failed, args, current_idx, C, cin,
      unidom_log, exit_status, proxy>>

SetVerts == 0..(MaxSetVerts - 1)

InitVertexSet ==
    StartAt(Plan(DominationInstance(Graph_reset(0), {}, {}), VariantJobs), "construct",
            <<>>, SolverContext, <<>>)

\* VertexSet()
VertexSet_construct ==
    /\ pc = "construct"
    /\ D' = reset_empty(MaxSetVerts)
    /\ pc' = "vertex_set"
    /\ UNCHANGED set_vars

VertexSet_reset_empty ==
    /\ pc = "vertex_set"
    /\ D' = reset_empty(MaxSetVerts)
    /\ UNCHANGED <<pc, set_vars>>

VertexSet_reset_full ==
    /\ pc = "vertex_set"
    /\ \E n \in 0..MaxSetVerts : D' = reset_full_on(D, n)
    /\ UNCHANGED <<pc, set_vars>>

VertexSet_add ==
    /\ pc = "vertex_set"
    /\ \E v \in SetVerts : ~contains(D, v) /\ D' = VSadd(D, v)
    /\ UNCHANGED <<pc, set_vars>>

VertexSet_remove ==
    /\ pc = "vertex_set"
    /\ \E v \in SetVerts : contains(D, v) /\ D' = VSremove(D, v)
    /\ UNCHANGED <<pc, set_vars>>

VertexSet_remove_pop ==
    /\ pc = "vertex_set"
    /\ \E v \in SetVerts : D.set_indices[v] = VSsize(D) - 1 /\ D' = remove_pop(D, v)
    /\ UNCHANGED <<pc, set_vars>>

NextVertexSet ==
    \/ VertexSet_construct
    \/ VertexSet_reset_empty
    \/ VertexSet_reset_full
    \/ VertexSet_add
    \/ VertexSet_remove
    \/ VertexSet_remove_pop

SpecVertexSet == InitVertexSet /\ [][NextVertexSet]_vars

(***************************************************************************)
(* main(): the command line is parsed, then instances are read, filtered   *)
(* and solved until the input source has no more                           *)
(***************************************************************************)
\* return 0 from main
Return0(lines) ==
    /\ pc' = "exit"
    /\ exit_status' = "exit 0"
    /\ unidom_log' = unidom_log \o lines

\* an exception nothing catches: std::terminate
Terminate(lines) ==
    /\ pc' = "terminated"
    /\ exit_status' = "SIGABRT"
    /\ unidom_log' = unidom_log \o lines

Main ==
    /\ pc = "main"
    /\ pc' = "parse"
    /\ unidom_log' = IF Len(args) = 0
                     THEN Append(unidom_log, LogLine("Use the -h flag", <<>>))
                     ELSE unidom_log
    /\ UNCHANGED <<inst, solver_vars, args, current_idx, C, cin, exit_status>>

\* one pass through the while loop of parse_arguments
ParseArgument ==
    /\ pc = "parse"
    /\ has_next(StackedArgumentTokenizer(args, current_idx, 0))
    /\ \E r \in {parse_argument(C, solver, StackedArgumentTokenizer(args, current_idx, 0))} :
          /\ C' = r.C
          /\ solver' = r.solver
          /\ current_idx' = r.S.current_idx
          /\ IF r.e.thrown = "ArgumentParsingException"
             THEN Return0(Append(r.log, catch_line(args, r.e)))
             ELSE IF r.e.thrown # "none" THEN Terminate(r.log)
             ELSE IF r.returned THEN Return0(r.log)
             ELSE /\ unidom_log' = unidom_log \o r.log
                  /\ UNCHANGED <<pc, exit_status>>
    /\ UNCHANGED <<inst, run_vars, args, cin>>

\* the loop of parse_arguments is over: the defaults, and main logs the
\* components
ParseEnd ==
    /\ pc = "parse"
    /\ ~has_next(StackedArgumentTokenizer(args, current_idx, 0))
    /\ C' = [C EXCEPT !.input_source = IF @ = nullptr THEN default_input_source ELSE @,
                      !.solver = IF @ = nullptr THEN default_solver ELSE @,
                      !.output_proxy = IF @ = nullptr THEN default_output_proxy ELSE @]
    /\ solver' = IF C.solver = nullptr THEN spawn_solver(default_solver) ELSE solver
    /\ unidom_log' = Append(unidom_log, LogLine("Input source:", C'.input_source))
    /\ pc' = "read"
    /\ UNCHANGED <<inst, run_vars, args, current_idx, cin, exit_status>>

\* C.input_source->read_next(inst) on a new instance, and
\* C.original_input_graph = inst.G
ReadNext ==
    /\ pc = "read"
    /\ \E r \in {SimpleGraphInputSource_read_next(
                     cin, DominationInstance(Graph_reset(0), {}, {}))} :
          /\ inst' = r.inst
          /\ cin' = r.f
          /\ IF r.ok
             THEN /\ C' = [C EXCEPT !.original_input_graph = r.inst.G]
                  /\ pc' = "preprocess"
                  /\ UNCHANGED <<unidom_log, exit_status>>
             ELSE /\ Return0(<<>>)
                  /\ UNCHANGED C
    /\ UNCHANGED <<solver_vars, args, current_idx>>

\* the preprocess filters in the order of the command line
Preprocess ==
    /\ pc = "preprocess"
    /\ \E r \in {process_filters([inst |-> inst, thrown |-> "none"],
                                 C.preprocess_filters, 1)} :
          /\ inst' = r.inst
          /\ IF r.thrown = "none"
             THEN /\ pc' = "start"
                  /\ UNCHANGED <<unidom_log, exit_status>>
             ELSE Terminate(<<>>)
    /\ UNCHANGED <<solver_vars, args, current_idx, C, cin>>

\* solve() has returned: the time is logged and the loop goes round
Solved ==
    /\ pc = "done"
    /\ unidom_log' = Append(unidom_log, LogLine("Total Solver Time:", <<>>))
    /\ pc' = "read"
    /\ UNCHANGED <<inst, solver_vars, args, current_idx, C, cin, exit_status>>

NextMain == Main \/ ParseArgument \/ ParseEnd \/ ReadNext \/ Preprocess \/ Next \/ Solved

\* the pieces command lines are made of
Segments ==
    { <<s_S, s_fixed_order>>, <<s_S, s_DD_minCD_asc>>, <<s_S, s_nosuch>>, <<s_S>>,
      <<s_S, s_fixed_order, s_u>>, <<s_S, s_fixed_order, s_u, <<"1">> >>,
      <<s_F, s_force_in, <<"0">> >>, <<s_F, s_force_in, <<"1">> >>,
      <<s_F, s_force_out, <<"0">> >>, <<s_F, s_force_in, <<"x">> >>,
      <<s_F, s_force_in, <<"9", "9", "9", "9", "9", "9", "9", "9", "9", "9", "9">> >>,
      <<s_O, s_output_all>>, <<s_I, s_basic_input>>, <<s_x>>, <<s_h>> }

RECURSIVE Flatten(_)
Flatten(ss) == IF ss = <<>> THEN <<>> ELSE Head(ss) \o Flatten(Tail(ss))

\* the command lines of up to MaxSegments pieces
CommandLines ==
    UNION {{Flatten(ss) : ss \in [1..k -> Segments]} : k \in 0..MaxSegments}

\* what standard input holds: nothing, K1 or P2
StdinTexts == {<<>>, write_graph(Path(1)), write_graph(Path(2))}

InitMain ==
    \E argv \in CommandLines, text \in StdinTexts :
        StartAt(Plan(DominationInstance(Graph_reset(0), {}, {}), <<nullptr>>), "main",
                argv, SolverContext, text)

SpecMain == InitMain /\ [][NextMain]_vars

(***************************************************************************)
(* Ground truth the properties are stated against                          *)
(***************************************************************************)
\* T dominates the input graph g: every vertex is in T or has a neighbour
\* in T
Dominates(g, T) ==
    \A v \in Verts(g) : v \in T \/ \E u \in T : u \in Range(g.neighbours[v])

ForceIn == Range(inst.force_in.set_elements)

ForceOut == Range(inst.force_out.set_elements)

\* the dominating sets of the instance that contain force_in and avoid
\* force_out
Feasible ==
    {T \in SUBSET Verts(inst.G) :
        Dominates(inst.G, T) /\ ForceIn \subseteq T /\ ForceOut \cap T = {}}

\* gamma(G, force_in, force_out), for an instance with a feasible set
Gamma == SetMin({Cardinality(T) : T \in Feasible})

\* the sets passed to process_set so far, as sets
Emitted == {Range(output[k]) : k \in 1..Len(output)}

DefaultBounds ==
    solver.total_lower_bound = 0 /\ solver.total_upper_bound = MAX_VERTS

(***************************************************************************)
(* Properties                                                              *)
(***************************************************************************)
\* C1: an optimization variant run with the default bounds on an instance
\* that has a feasible dominating set emits at least one set, and the last
\* set it emits has gamma(G, force_in, force_out) vertices.
C1_OptimumReported ==
    (pc = "done" /\ ~solver.GENERATE_ALL /\ DefaultBounds /\ Feasible # {})
        => (output # <<>> /\ Len(output[Len(output)]) = Gamma)

\* C2: a generation variant run with the bounds (l, u) emits exactly the
\* feasible dominating sets D with l <= |D| <= u.
C2_GenerationExact ==
    (pc = "done" /\ solver.GENERATE_ALL)
        => Emitted = {T \in Feasible : /\ solver.total_lower_bound <= Cardinality(T)
                                       /\ Cardinality(T) <= solver.total_upper_bound}

\* C3: every set passed to process_set, by any variant in either mode,
\* dominates the input graph.
C3_EmittedDominates ==
    \A k \in 1..Len(output) : Dominates(inst.G, Range(output[k]))

\* a generation run of an MDD variant has emitted two sets on a path or
\* cycle of more than MaxN vertices
C3_Witness ==
    /\ Len(output) >= 2
    /\ solver.family = "MDD"
    /\ solver.GENERATE_ALL
    /\ inst.G.n > MaxN

C5_NoDuplicates ==
    solver.GENERATE_ALL
        => \A k, m \in 1..Len(output) : Range(output[k]) = Range(output[m]) => k = m

\* a generation run has emitted three sets
C5_Witness ==
    /\ solver.GENERATE_ALL
    /\ Len(output) >= 3
    /\ pc = "done"

\* the sets a finished solver process has emitted, and the size of the last
\* of them (-1 when it emitted none)
EmittedBy(r) == {Range(r.output[k]) : k \in 1..Len(r.output)}

BestSize(r) == IF r.output = <<>> THEN -1 ELSE Len(r.output[Len(r.output)])

\* every solver process of the campaign has run to its end
CampaignDone ==
    /\ jobs = <<>>
    /\ pc = "done"
    /\ \A k \in 1..Len(results) : results[k].status = "done"

\* C6: the runs of a generation variant for resmod_res = 0..resmod_mod-1
\* (results 2, 3, ...) emit together exactly what the run without res/mod
\* splitting (result 1) emits, and no set is emitted by two of them.
C6_ResModPartition ==
    CampaignDone
        => /\ UNION {EmittedBy(results[k]) : k \in 2..Len(results)} = EmittedBy(results[1])
           /\ \A k, m \in 2..Len(results) :
                 k # m => EmittedBy(results[k]) \cap EmittedBy(results[m]) = {}

\* C7: the registered optimization variants, run on the same instance,
\* finish with best sets of the same size.
C7_VariantsAgree ==
    CampaignDone
        => \A k, m \in 1..Len(results) : BestSize(results[k]) = BestSize(results[m])

\* C8: when a call of FindDominatingSet returns, D, covered[], fixed[],
\* total_covered, total_fixed, every ranked_degree of each DegreePQ,
\* mdd_values, mdd_counts and the candidate-neighbour sets are what they
\* were when the call was entered.
C8_ReturnRestores ==
    [][(pc = "search" /\ pc' = "search" /\ stack # <<>> /\ Len(stack') = Len(stack) - 1)
          => Snapshot(State', solver.family) = Top.entry]_vars

\* the call made for the first neighbour of the root's pivot has returned
\* after it went at least one level deeper, in an MDD variant
C8_Witness ==
    /\ pc = "search"
    /\ Len(stack) = 1
    /\ Top.pc = "call"
    /\ Top.q = 1
    /\ VSsize(D) < inst.G.n
    /\ depth_log[VSsize(D) + 1] >= 1
    /\ solver.family = "MDD"

\* FindDominatingSet has just been entered
AtEntry == pc = "search" /\ stack # <<>> /\ Top.pc = "enter"

\* N(v) \cup {v} in the input graph
ClosedNeighbourhood(v) == Range(inst.G.neighbours[v]) \cup {v}

\* C9: at every entry of FindDominatingSet in the DD and MDD variants the
\* uncovered-degree queue ranks v by the number of undominated vertices of
\* N(v) \cup {v}, and (DD) the candidate queue by the number of non-fixed
\* ones.
C9_RankedDegreeTrue ==
    (AtEntry /\ solver.family # "FO")
        => \A v \in Verts(inst.G) :
              /\ ranked_degree(UndominatedDPQ, v)
                    = Cardinality({u \in ClosedNeighbourhood(v) : covered[u] = 0})
              /\ solver.family = "DD"
                    => ranked_degree(CandidateDPQ, v)
                          = Cardinality({u \in ClosedNeighbourhood(v) : fixed[u] = 0})

\* the maximum, over the candidates u of N(v) \cup {v}, of the number of
\* undominated vertices in N(u) \cup {u}; 0 without candidates
TrueMdd(v) ==
    LET cand == {u \in ClosedNeighbourhood(v) : fixed[u] = 0}
    IN IF cand = {} THEN 0
       ELSE SetMax({Cardinality({w \in ClosedNeighbourhood(u) : covered[w] = 0}) : u \in cand})

\* C10: at every entry of FindDominatingSet in the MDD variants, mdd_values
\* holds the true maximum for every undominated vertex and INVALID_MDD for
\* every dominated one, and mdd_counts[d] counts the undominated vertices
\* of mdd d.
C10_MddTrue ==
    (AtEntry /\ solver.family = "MDD")
        => /\ \A v \in Verts(inst.G) :
                 mdd_stack.mdd_values[v] = IF covered[v] = 0 THEN TrueMdd(v) ELSE INVALID_MDD
           /\ \A d \in DOMAIN mdd_stack.mdd_counts :
                 mdd_stack.mdd_counts[d]
                    = Cardinality({v \in Verts(inst.G) : covered[v] = 0 /\ TrueMdd(v) = d})

\* solve() has just made its first call of FindDominatingSet
AtFirstEntry == AtEntry /\ Len(stack) = 1

\* C16: at the start of every optimization solve, in every variant, the
\* sentinel B has n vertices when total_upper_bound >= n and
\* total_upper_bound + 1 vertices when total_upper_bound < n.
C16_SentinelSize ==
    (AtFirstEntry /\ ~solver.GENERATE_ALL)
        => VSsize(B) = IF solver.total_upper_bound >= inst.G.n
                       THEN inst.G.n
                       ELSE solver.total_upper_bound + 1

\* the range assertions of DegreePQBase::increment and decrement
RangeAssertions ==
    {"increment: old_deg >= 0 && old_deg < n-2", "decrement: old_deg >= 1 && old_deg < n-1"}

\* C17: in a DD or MDD solver no range assertion of increment or decrement
\* fails, during construction or during the search, and right after
\* construction (no forced vertex has been processed) every vertex is ranked
\* by the length of its adjacency list, loop included.
C17_RanksInRange ==
    solver.family # "FO"
        => /\ failed \cap RangeAssertions = {}
           /\ (AtFirstEntry /\ ForceIn = {} /\ ForceOut = {})
                 => \A v \in Verts(G) : ranked_degree(UndominatedDPQ, v) = deg(G, v)

\* C18: at every entry of FindDominatingSet, in every variant, every vertex
\* of D has fixed[v] set.
C18_DIsFixed ==
    AtEntry => \A v \in Range(D.set_elements) : fixed[v] # 0

\* C19: at every entry of FindDominatingSet, in every variant, covered[v]
\* is the number of vertices of D in N(v) \cup {v}, and total_covered is the
\* number of vertices v with covered[v] > 0.
C19_CoveredCounts ==
    AtEntry
        => /\ \A v \in Verts(inst.G) :
                 covered[v] = Cardinality(Range(D.set_elements) \cap ClosedNeighbourhood(v))
           /\ total_covered = Cardinality({v \in Verts(inst.G) : covered[v] > 0})

\* a DD variant enters FindDominatingSet for the second or a later
\* neighbour of a pivot (the vertex tried before has left D again), two
\* levels below the root, with a vertex dominated twice
C19_Witness ==
    /\ AtEntry
    /\ solver.family = "DD"
    /\ Len(stack) >= 3
    /\ stack[Len(stack) - 1].q >= 2
    /\ \E v \in Verts(inst.G) : covered[v] >= 2

\* FindDominatingSet has chosen its pivot Top.i and ranked the neighbours,
\* and has not yet tried one
PivotChosen == pc = "search" /\ stack # <<>> /\ Top.pc = "loop" /\ Top.q = 1

\* the value the pivot rule of the running variant compares
PivotValue(v) ==
    IF solver.family = "DD" THEN ranked_degree(CandidateDPQ, v)
    ELSE IF solver.CHOOSE_VERTEX_RULE = "MIN_CD" THEN VSsize(CandidateNeighbours[v])
    ELSE mdd_stack.mdd_values[v]

\* the undominated vertices with the pivot's value
TiedWithPivot == {v \in Verts(inst.G) : covered[v] = 0 /\ PivotValue(v) = PivotValue(Top.i)}

\* C20: the pivot of a DD or MDD variant is, among the undominated vertices
\* that have the same value under the variant's pivot rule, the one with the
\* smallest index.
C20_SmallestIndexPivot ==
    (PivotChosen /\ solver.family # "FO") => Top.i = SetMin(TiedWithPivot)

\* C15 as stated: on the 4x4 queen graph every optimization variant that
\* has finished has a best set of 3 vertices.
C15_QueenThree ==
    \A k \in 1..Len(results) :
        ~results[k].solver.GENERATE_ALL => BestSize(results[k]) = 3

\* C15, amended: on the 4x4 queen graph every optimization variant runs to
\* its end, and its best set has 2 vertices and dominates the graph; 2 is
\* the domination number of that graph.
C15_QueenTwo ==
    /\ \A k \in 1..Len(results) :
          /\ results[k].status = "done"
          /\ BestSize(results[k]) = 2
          /\ Dominates(inst.G, Range(results[k].output[Len(results[k].output)]))
    /\ CampaignDone => Gamma = 2

\* all seven optimization variants have finished on the 16-vertex graph
C15_Witness ==
    /\ CampaignDone
    /\ inst.G.n = 16
    /\ {results[k].solver.name : k \in 1..Len(results)}
          = {OptimizationVariants[k].name : k \in DOMAIN OptimizationVariants}

\* the output proxy has thrown TerminateOutput
Thrown == proxy.terminate_at > 0 /\ proxy.process_set >= proxy.terminate_at

\* C13: once the output proxy has thrown TerminateOutput from process_set
\* and the search is over, solve() has returned: finalize has been called
\* exactly once and process_set not again.
C13_TerminateFinalizes ==
    (Thrown /\ pc # "search")
        => /\ pc = "done"
           /\ proxy.finalize = 1
           /\ proxy.process_set = proxy.terminate_at

\* what read_graph accepts: n < MAX_VERTS, every degree and every
\* neighbour index < MAX_DEGREE
Readable(g) ==
    /\ g.n < MAX_VERTS
    /\ \A v \in Verts(g) :
          /\ Len(g.neighbours[v]) < MAX_DEGREE
          /\ \A k \in 1..Len(g.neighbours[v]) : g.neighbours[v][k] < MAX_DEGREE

\* C14: when the graph written satisfies n < MAX_VERTS, every degree <
\* MAX_DEGREE and every neighbour index < MAX_DEGREE, reading the text that
\* write_graph produced succeeds and gives a graph with the same n and, for
\* every vertex, the same adjacency list in the same order.
C14_RoundTrip ==
    (pc \in {"read_ok", "read_failed"} /\ Readable(C.original_input_graph))
        => /\ pc = "read_ok"
           /\ inst.G.n = C.original_input_graph.n
           /\ \A v \in Verts(inst.G) :
                 inst.G.neighbours[v] = C.original_input_graph.neighbours[v]

\* a list of two different multi-digit neighbours has been read back
C14_Witness ==
    /\ pc = "read_ok"
    /\ \E v \in Verts(inst.G) :
          /\ Len(inst.G.neighbours[v]) = 2
          /\ inst.G.neighbours[v][1] = MAX_DEGREE - 1
          /\ inst.G.neighbours[v][2] = 10

\* the step refuses the configuration: parse_arguments does not return
\* true, or a preprocess filter does not let the instance through
ConfigurationError ==
    \/ pc = "parse" /\ pc' \notin {"parse", "read"}
    \/ pc = "preprocess" /\ pc' # "start"

\* C11: every configuration error (an unrecognised token, an unknown
\* component name, a missing parameter, a force_in or force_out vertex
\* outside [0, n)) writes to the log and ends the process with exit status
\* 0, solve() not having been called for the instance.
C11_ErrorsReported ==
    [][ConfigurationError =>
           /\ exit_status' = "exit 0"
           /\ Len(unidom_log') > Len(unidom_log)
           /\ proxy'.initialize = 0]_vars

\* C12: when solve() is about to be called on an instance that the force_in
\* and force_out filters have processed, force_in and force_out are
\* disjoint subsets of V(G); no vertex reaches the solver in both sets.
C12_ForceSetsConsistent ==
    pc = "start" =>
        /\ ForceIn \cap ForceOut = {}
        /\ ForceIn \subseteq Verts(inst.G)
        /\ ForceOut \subseteq Verts(inst.G)

\* the sibling loop of the innermost call is over and the loop that
\* releases fixed_list runs to its end
AtRelease ==
    /\ pc = "search"
    /\ stack # <<>>
    /\ Top.pc = "loop"
    /\ ~LoopContinues
    /\ ~Undefined(Released)

\* C21 as stated: in every variant the banned siblings are released in the
\* order in which they were banned, first banned first released.
C21_ReleasedInBanOrder == AtRelease => Released.released = Top.fixed_list

\* C21: the banned siblings are released in the order in which they were
\* banned by the DD variants, and in the reverse order, last banned first
\* released, by the MDD variants and by fixed_order.
C21_ReleaseOrder ==
    AtRelease =>
        Released.released = IF solver.family = "DD" THEN Top.fixed_list
                            ELSE Reverse(Top.fixed_list)

\* a DD call releases two different siblings
C21_Witness ==
    /\ AtRelease
    /\ solver.family = "DD"
    /\ Len(Top.fixed_list) >= 2
    /\ Top.fixed_list[1] # Top.fixed_list[Len(Top.fixed_list)]
    /\ Released.released = Top.fixed_list

\* an entry of the checking flavour with |D| = resmod_depth
AtResModDepth ==
    /\ AtEntry
    /\ Top.check_resmod_depth
    /\ VSsize(D) = solver.resmod_depth

\* the call returns at once: nothing is emitted and nothing but depth_log
\* changes
SkippedEntirely ==
    /\ stack' = Pop
    /\ output' = output
    /\ proxy' = proxy
    /\ UNCHANGED <<pc, results, G, D, B, covered, fixed, total_covered, total_fixed,
                   max_deg, UndominatedDPQ, CandidateDPQ, CandidateNeighbours,
                   UndominatedSet, mdd_stack, failed>>

\* C22: every entry of FindDominatingSet adds exactly one to depth_log at
\* its depth |D| and nothing else changes depth_log within a run, so that at
\* an entry with |D| = resmod_depth the value k of depth_log there is the
\* number of the earlier entries at that depth; that entry does what an
\* entry of the unchecked flavour does when k mod resmod_mod = resmod_res
\* and returns at once, with nothing emitted or changed, otherwise.
C22_ResModEntries ==
    [][/\ IF AtEntry
          THEN depth_log' = [depth_log EXCEPT ![VSsize(D)] = @ + 1]
          ELSE depth_log' = depth_log \/ pc \in {"start", "done", "error", "undefined"}
       /\ AtResModDepth =>
             IF depth_log[VSsize(D)] % solver.resmod_mod = solver.resmod_res
             THEN FindDominatingSet(FALSE)
             ELSE SkippedEntirely]_vars

\* the third entry at resmod_depth of a worker of two: one entry has been
\* explored and one skipped before it
C22_Witness ==
    /\ AtResModDepth
    /\ solver.resmod_mod = 2
    /\ depth_log[VSsize(D)] = 2
    /\ solver.resmod_res = 0
    /\ output # <<>>

\* the sets of non-fixed vertices that dominate every undominated vertex
Extensions ==
    {X \in SUBSET {v \in Verts(inst.G) : fixed[v] = 0} :
        \A u \in Verts(inst.G) :
            covered[u] = 0 => X \cap ClosedNeighbourhood(u) # {}}

\* the least number of non-fixed vertices that dominate every undominated
\* vertex; MAX_VERTS, the value min_vertices_needed returns for infinity,
\* when there is no such set
MinExtension ==
    IF Extensions = {} THEN MAX_VERTS
    ELSE SetMin({Cardinality(X) : X \in Extensions})

\* C23: at every entry of FindDominatingSet in the MDD variants
\* min_vertices_needed() does not exceed the least number of non-fixed
\* vertices whose addition to D dominates every vertex.
C23_LowerBound ==
    (AtEntry /\ solver.family = "MDD")
        => min_vertices_needed(mdd_stack) <= MinExtension

\* C24: in an MDD solver, once the MDDStack is built, max_mdd is at least 0
\* after every operation, the conditioning by force_in and force_out
\* included, and is the largest d with mdd_counts[d] > 0 whenever a vertex
\* is undominated.
C24_MaxMdd ==
    (solver.family = "MDD" /\ "max_mdd" \in DOMAIN mdd_stack)
        => /\ mdd_stack.max_mdd >= 0
           /\ UndominatedSet.set_elements # <<>>
                 => mdd_stack.max_mdd
                       = SetMax({d \in DOMAIN mdd_stack.mdd_counts : mdd_stack.mdd_counts[d] > 0})

\* the assertions of MDDStack on the direction of a change of mdd
MddDirectionAssertions ==
    {"MDDStack: new_mdd < old_mdd", "unexclude_dominator: new_mdd > old_mdd"}

\* C25: in an MDD solver no recomputation of add_dominator or
\* exclude_dominator raises an mdd (assert(new_mdd < old_mdd) never fails
\* where the value changes) and every entry that unexclude_dominator
\* restores is larger than the value it replaces (assert(new_mdd > old_mdd)
\* never fails).
C25_MddDirection ==
    solver.family = "MDD" => failed \cap MddDirectionAssertions = {}

\* the sibling loop of an MDD call is over after exclude_dominator has
\* lowered an mdd: unexclude_dominator has an entry to restore
C25_Witness ==
    /\ AtRelease
    /\ solver.family = "MDD"
    /\ Top.fixed_list # <<>>
    /\ mdd_stack.stack # <<>>
    /\ mdd_stack.stack[Len(mdd_stack.stack)].entries # <<>>
    /\ failed \cap MddDirectionAssertions = {}

\* the sum of the ranks of the vertices of T in the queue q
RECURSIVE RankSum(_, _)
RankSum(q, T) ==
    IF T = {} THEN 0
    ELSE LET v == CHOOSE x \in T : TRUE
         IN ranked_degree(q, v) + RankSum(q, T \ {v})

\* the least number of non-fixed vertices of q whose ranks add up to m or
\* more; MAX_VERTS + 1 when all of them together do not
LeastToDominate(q, m) ==
    LET enough == {T \in SUBSET {v \in 0..(q.n - 1) : ~q.is_fixed[v]} : RankSum(q, T) >= m}
    IN IF enough = {} THEN MAX_VERTS + 1
       ELSE SetMin({Cardinality(T) : T \in enough})

\* the values the remainder m takes during the walk of
\* count_minimum_to_dominate(m)
RECURSIVE remainders_from(_, _, _)
remainders_from(q, node, m) ==
    IF NodeDeg(q, node) = 0 \/ NodeDeg(q, node) = INVALID_VERTEX
       \/ (m + NodeDeg(q, node) - 1) \div NodeDeg(q, node) <= q.unfixed_count[node]
    THEN {m}
    ELSE {m} \cup remainders_from(q, q.prev[node],
                                  m - NodeDeg(q, node) * q.unfixed_count[node])

\* the queues of a DD or MDD solver during the search
SearchQueues ==
    IF pc # "search" \/ solver.family = "FO" THEN {}
    ELSE IF solver.family = "DD" THEN {UndominatedDPQ, CandidateDPQ}
    ELSE {UndominatedDPQ}

\* C26: for every queue that a DD or MDD solver holds during the search and
\* every m in 1..n, count_minimum_to_dominate(m) is the least number of
\* non-fixed vertices whose ranks add up to m or more, MAX_VERTS + 1 when
\* there is no such number, and the remainder m is never negative during
\* the walk.
C26_CountMinimum ==
    \A q \in SearchQueues : \A m \in 1..q.n :
        /\ count_minimum_to_dominate(q, m) = LeastToDominate(q, m)
        /\ \A r \in remainders_from(q, q.prev[HeadTail], m) : r >= 0

\* the rank nodes of q from node to the tail, at most left of them
RECURSIVE NodesFrom(_, _, _)
NodesFrom(q, node, left) ==
    IF node = HeadTail \/ node = Null \/ left = 0 THEN <<>>
    ELSE <<node>> \o NodesFrom(q, q.next[node], left - 1)

\* the rank-node list of q from head to tail
NodeList(q) == NodesFrom(q, q.next[HeadTail], q.n + 2)

\* the vertices of q on the rank node r
VerticesAt(q, r) == {v \in 0..(q.n - 1) : q.degree_node[v] = r}

\* the invariant of a DegreePQ
DegreePQInvariant(q) ==
    /\ \A k \in 1..(Len(NodeList(q)) - 1) :
          NodeDeg(q, NodeList(q)[k]) < NodeDeg(q, NodeList(q)[k + 1])
    /\ {NodeDeg(q, r) : r \in Range(NodeList(q))}
          = {ranked_degree(q, v) : v \in 0..(q.n - 1)}
    /\ \A r \in Range(NodeList(q)) :
          /\ q.count[r] = Cardinality(VerticesAt(q, r))
          /\ q.unfixed_count[r] = Cardinality({v \in VerticesAt(q, r) : ~q.is_fixed[v]})
          /\ q.is_heavy =>
                /\ q.undominated_count[r] = Len(q.undominated[r])
                /\ Range(q.undominated[r]) = {v \in VerticesAt(q, r) : ~q.is_dominated[v]}
                /\ Cardinality(Range(q.undominated[r])) = Len(q.undominated[r])

\* C27: every queue that a DD or MDD solver holds during the search
\* satisfies the invariant of DegreePQ: the rank-node list is strictly
\* increasing in rank from head to tail and holds exactly the ranks of the
\* vertices, and the count, unfixed_count and (heavy) undominated_count and
\* undominated list of every node of the list are those of the vertices at
\* its rank.
C27_DegreePQInvariant == \A q \in SearchQueues : DegreePQInvariant(q)

\* what rank_neighbours returns for the pivot i in the current state
Ranked(i) ==
    IF solver.family = "DD" THEN DD_rank_neighbours(State, solver, i)
    ELSE MDD_rank_neighbours(State, solver, i)

\* arr runs by uncovered degree as the rule of the solver asks
RankedInOrder(arr) ==
    \A k \in 1..(Len(arr) - 1) :
        IF solver.RANK_NEIGHBOURS_RULE = "ASCENDING"
        THEN ranked_degree(UndominatedDPQ, arr[k]) <= ranked_degree(UndominatedDPQ, arr[k + 1])
        ELSE ranked_degree(UndominatedDPQ, arr[k]) >= ranked_degree(UndominatedDPQ, arr[k + 1])

\* C28: at every entry of FindDominatingSet in a DD or MDD variant, for
\* every undominated pivot i, rank_neighbours fills neighbour_array with
\* the non-fixed vertices of N(i) \cup {i}, each once and nothing else, in
\* the order of the rule by uncovered degree, each of uncovered degree 1 or
\* more, and its assertion i == neighbour_count holds.
C28_RankNeighbours ==
    (AtEntry /\ solver.family # "FO")
        => \A i \in Verts(inst.G) :
              covered[i] = 0
                 => /\ ~Ranked(i).ub
                    /\ "rank_neighbours: i == neighbour_count" \notin Ranked(i).failed
                    /\ Len(Ranked(i).neighbour_array)
                          = Cardinality(Range(Ranked(i).neighbour_array))
                    /\ Range(Ranked(i).neighbour_array)
                          = {u \in ClosedNeighbourhood(i) : fixed[u] = 0}
                    /\ RankedInOrder(Ranked(i).neighbour_array)
                    /\ \A u \in Range(Ranked(i).neighbour_array) :
                          ranked_degree(UndominatedDPQ, u) >= 1

\* the candidates rank_neighbours scans for the pivot i, in the order of
\* the scan
Scanned(i) ==
    IF solver.family = "DD" THEN SelectSeq(G.neighbours[i], LAMBDA u : fixed[u] = 0)
    ELSE CandidateNeighbours[i].set_elements

\* the place of u in the scan of the pivot i
ScanIndex(i, u) == CHOOSE k \in 1..Len(Scanned(i)) : Scanned(i)[k] = u

\* the pairs of places a < b of arr that hold candidates of one uncovered
\* degree
Ties(arr) ==
    {p \in (1..Len(arr)) \X (1..Len(arr)) :
        /\ p[1] < p[2]
        /\ ranked_degree(UndominatedDPQ, arr[p[1]]) = ranked_degree(UndominatedDPQ, arr[p[2]])}

\* C29 as stated: under both rules, candidates of one uncovered degree are
\* returned in the order in which they were scanned.
C29_Stable ==
    (AtEntry /\ solver.family # "FO")
        => \A i \in Verts(inst.G) :
              (covered[i] = 0 /\ ~Ranked(i).ub)
                 => \A p \in Ties(Ranked(i).neighbour_array) :
                       ScanIndex(i, Ranked(i).neighbour_array[p[1]])
                          < ScanIndex(i, Ranked(i).neighbour_array[p[2]])

\* C29: candidates of one uncovered degree are returned in the order in
\* which they were scanned under the ascending rule and in the reverse of
\* that order under the descending rule.
C29_TiesByRule ==
    (AtEntry /\ solver.family # "FO")
        => \A i \in Verts(inst.G) :
              (covered[i] = 0 /\ ~Ranked(i).ub)
                 => \A p \in Ties(Ranked(i).neighbour_array) :
                       IF solver.RANK_NEIGHBOURS_RULE = "ASCENDING"
                       THEN ScanIndex(i, Ranked(i).neighbour_array[p[1]])
                               < ScanIndex(i, Ranked(i).neighbour_array[p[2]])
                       ELSE ScanIndex(i, Ranked(i).neighbour_array[p[1]])
                               > ScanIndex(i, Ranked(i).neighbour_array[p[2]])

\* the loop of a call starts on a neighbour_array of the descending rule
\* that holds every scanned candidate and two of one uncovered degree
C29_Witness ==
    /\ pc = "search"
    /\ stack # <<>>
    /\ Top.pc = "loop"
    /\ Top.q = 1
    /\ solver.family # "FO"
    /\ solver.RANK_NEIGHBOURS_RULE = "DESCENDING"
    /\ Len(Top.neighbour_array) = Len(Scanned(Top.i))
    /\ Ties(Top.neighbour_array) # {}

\* C30: during the search of an optimization solver the size of B never
\* grows, B changes only with an emission, an emission passes exactly one
\* set to process_set, that set is the new B, and it is smaller than the
\* set emitted before it: the sizes of the emitted sets are strictly
\* decreasing.
C30_Emissions ==
    [][(pc = "search" /\ ~solver.GENERATE_ALL)
          => /\ VSsize(B') <= VSsize(B)
             /\ IF output' = output THEN B' = B
                ELSE /\ output' = Append(output, B'.set_elements)
                     /\ VSsize(B') < VSsize(B)
                     /\ output # <<>>
                           => Len(output'[Len(output')]) < Len(output[Len(output)])]_vars

\* an optimization solver has emitted two sets and B is the second
C30_Witness ==
    /\ pc = "search"
    /\ ~solver.GENERATE_ALL
    /\ Len(output) >= 2
    /\ B.set_elements = output[Len(output)]
    /\ Len(output[2]) < Len(output[1])

\* C31: in fixed_order the scan for the pivot never leaves the graph (the
\* error "Graph is not consistent" is not raised), the pivot of a call in
\* its loop is the uncovered vertex of least index, and the pivot of the
\* calling node is covered at every entry of a nested call
\* (assert(covered[i]) of add_vertex_to_set never fails).
C31_FixedOrderPivot ==
    solver.family = "FO"
        => /\ pc # "error"
           /\ "fixed_order add_vertex_to_set: covered[i]" \notin failed
           /\ (pc = "search" /\ stack # <<>> /\ Top.pc = "loop")
                 => /\ Top.i < G.n
                    /\ Top.i = SetMin({v \in Verts(G) : covered[v] = 0})
           /\ (AtEntry /\ Len(stack) >= 2) => covered[stack[Len(stack) - 1].i] > 0

\* a nested call of fixed_order whose pivot is past a covered vertex: the
\* scan has stepped over vertex first
C31_Witness ==
    /\ pc = "search"
    /\ solver.family = "FO"
    /\ Len(stack) >= 2
    /\ Top.pc = "loop"
    /\ Top.i > Top.first
    /\ covered[Top.first] > 0
    /\ covered[stack[Len(stack) - 1].i] > 0


\* C32: in a DD variant, once an add_vertex_to_set of a loop has returned
\* forced = true, nothing is passed to process_set until that loop's call
\* of FindDominatingSet returns, and no further call is made from that loop:
\* the vertex fixed was the last of neighbour_array, so that
\* FORCE_STOP_ON_TRAPPED_VERTEX would leave a loop that is over
AfterTrapped == pc = "search" /\ \E k \in 1..Len(stack) : stack[k].trapped

C32_TrappedSiblingsEmitNothing ==
    [][(solver.family = "DD" /\ AfterTrapped)
            => output' = output /\ Len(stack') <= Len(stack)]_vars

\* add_vertex_to_set has returned true to a loop over two vertices or more
C32_Witness ==
    /\ solver.family = "DD"
    /\ solver.GENERATE_ALL
    /\ pc = "search"
    /\ stack # <<>>
    /\ Top.pc = "loop"
    /\ Top.trapped
    /\ Top.forced
    /\ Len(Top.neighbour_array) >= 2
    /\ output # <<>>

\* how far a call of FindDominatingSet has come: before its loop, before
\* the q-th iteration, or inside it
Position(f) ==
    IF f.pc = "enter" THEN 0 ELSE IF f.pc = "loop" THEN 2 * f.q ELSE 2 * f.q + 1

\* call stack s comes before call stack t in the traversal of the search
\* tree: at the outermost frame where they differ t is further on, or t is
\* what is left of s after returns
RECURSIVE Before(_, _, _)
Before(s, t, k) ==
    IF k > Len(t) THEN k <= Len(s)
    ELSE IF k > Len(s) THEN FALSE
    ELSE IF Position(s[k]) # Position(t[k]) THEN Position(s[k]) < Position(t[k])
    ELSE Before(s, t, k + 1)

\* every step of the search moves on in the traversal
SearchAdvances == [][(pc = "search" /\ pc' = "search") => Before(stack, stack', 1)]_vars

\* the traversal is finite: at most n + 1 nested calls, each with a loop
\* over at most n vertices, and D never holds more than n vertices
SearchBounded ==
    pc = "search"
        => /\ VSsize(D) <= G.n
           /\ Len(stack) <= G.n + 1
           /\ \A k \in 1..Len(stack) :
                 /\ Len(stack[k].neighbour_array) <= G.n
                 /\ stack[k].q <= Len(stack[k].neighbour_array) + 1

\* no vertex is added to D that is in D or is fixed
AddsNewVertices ==
    failed \cap {"VertexSet::add: !contains(v)", "DD remove_candidate: !fixed[v]",
                 "MDD remove_candidate: !fixed[v]"} = {}

\* C33: every solve call terminates: the search advances with every step
\* through a traversal that is finite, |D| never exceeds n, every vertex
\* added to D was neither in D nor fixed, and no call ends in undefined
\* behaviour instead of returning
C33_SolveTerminates ==
    /\ SearchAdvances
    /\ [](SearchBounded /\ AddsNewVertices /\ pc # "undefined")

\* the members of a VertexSet in iteration order, and membership as
\* contains reports it
Iteration(s) == s.set_elements

Members(s) == {v \in DOMAIN s.set_indices : contains(s, v)}

\* C34: whatever D the search has built and whatever vertex v outside D,
\* add(v) followed by remove_pop(v) leaves the iteration of D and the
\* answers of contains as they were; no D.remove_pop(j) of a solver finds j
\* anywhere but last in D, and between two iterations of a loop D iterates
\* as it did when the call was entered
C34_AddRemovePop ==
    /\ "VertexSet::remove_pop: last" \notin failed
    /\ pc = "search"
          => /\ \A v \in Verts(G) \ Members(D) :
                   /\ Iteration(remove_pop(VSadd(D, v), v)) = Iteration(D)
                   /\ Members(remove_pop(VSadd(D, v), v)) = Members(D)
             /\ (stack # <<>> /\ Top.pc = "loop") => Iteration(D) = Top.entry.D

\* a vertex has been added to a D of two vertices and popped again
C34_Witness ==
    /\ pc = "search"
    /\ stack # <<>>
    /\ Top.pc = "loop"
    /\ Top.q > 1
    /\ VSsize(D) >= 2
    /\ D.set_indices[Top.j] = MAX_VERTS + 1

\* C35: Graph::renumber(p) gives vertex i the real_index of old vertex p[i]
\* and the adjacency list of old vertex p[i] with every neighbour u replaced
\* by the position of u in p, in the same order; renumbering the result by
\* the inverse of p gives back the adjacency lists and real indices of the
\* original
RenumberedBy(old, new, p) ==
    /\ new.n = old.n
    /\ \A i \in Verts(old) :
          /\ new.real_index[i] = old.real_index[p[i]]
          /\ Len(new.neighbours[i]) = Len(old.neighbours[p[i]])
          /\ \A k \in 1..Len(new.neighbours[i]) :
                p[new.neighbours[i][k]] = old.neighbours[p[i]][k]

C35_Renumber ==
    /\ pc = "renumbered"
          => RenumberedBy(C.original_input_graph, inst.G,
                          C.preprocess_filters[1].permuted_numbering)
    /\ pc = "restored"
          => /\ inst.G.neighbours = C.original_input_graph.neighbours
             /\ inst.G.real_index = C.original_input_graph.real_index

\* a graph with an edge has been renumbered by a permutation that is not
\* its own inverse, and renumbered back
C35_Witness ==
    /\ pc = "restored"
    /\ C.preprocess_filters[1].permuted_numbering # C.preprocess_filters[2].permuted_numbering
    /\ \E v \in Verts(inst.G) : Len(inst.G.neighbours[v]) >= 2
    /\ \E v \in Verts(inst.G) : inst.G.real_index[v] # v

\* the calls the output proxy has received are in order: initialize once
\* before any process_set, one process_set for each set of the output, and
\* nothing after finalize
ProxyCallsInOrder ==
    /\ proxy.initialize <= 1
    /\ proxy.finalize <= 1
    /\ proxy.process_set = Len(output)
    /\ proxy.process_set > 0 => proxy.initialize = 1
    /\ proxy.finalize = 1 => proxy.initialize = 1 /\ pc = "done"

NothingAfterFinalize == [][proxy.finalize = 1 => proxy' = proxy]_vars

\* the solver process is over, by the return of solve() or otherwise
Over == pc \notin {"start", "search"}

\* C36: for each instance given to a solver, initialize is called once
\* before any process_set and finalize once after the last process_set, so
\* that output_all writes the solution lines and then one line -1
C36_OutputProtocol ==
    /\ [](ProxyCallsInOrder /\ (Over => proxy.initialize = 1 /\ proxy.finalize = 1))
    /\ NothingAfterFinalize

\* the call at its entry is about to return because of its bound test:
\* D does not dominate, a pivot has been found, and the test that lets the
\* node branch is false
Pruned(family) ==
    /\ AtEntry
    /\ solver.family = family
    /\ report_node(solver, depth_log, Top.check_resmod_depth, VSsize(D)) # 0
    /\ total_covered # G.n
    /\ IF family = "FO"
       THEN FO_next_uncovered(State, Top.first) < G.n /\ ~FO_bounds_satisfied(State, solver)
       ELSE /\ family = "DD"
            /\ DD_choose_pivot(State, solver) # INVALID_VERTEX
            /\ ~solver.RECHECK_BOUNDS_IN_LOOP
            /\ ~DD_bounds_satisfied(State, solver)

\* a size the mode would pass to process_set, as far as the bound test is
\* concerned
Emittable(size) ==
    IF solver.GENERATE_ALL THEN size <= solver.total_upper_bound ELSE size < VSsize(B)

\* no dominating set made of D and non-fixed vertices has an emittable size
NothingDiscarded ==
    \A X \in Extensions : ~Emittable(Cardinality(Range(D.set_elements) \cup X))

\* C37: whenever the bound test of a DD or fixed_order variant prunes a
\* node, no dominating set that extends D by non-fixed vertices has a size
\* the mode would accept
C37_PruningIsSafe == (Pruned("FO") \/ Pruned("DD")) => NothingDiscarded

FixedOrderPruningIsSafe == Pruned("FO") => NothingDiscarded

\* contains(v) is true exactly for the vertices of the iteration, no vertex
\* is iterated twice, and set_indices[set_elements[k]] = k for every k < size
WellFormed(s) ==
    /\ Members(s) = Range(Iteration(s))
    /\ \A k, m \in 1..VSsize(s) : s.set_elements[k] = s.set_elements[m] => k = m
    /\ \A k \in 1..VSsize(s) : s.set_indices[s.set_elements[k]] = k - 1

\* C38: after any sequence of reset_empty, reset_full, add, remove and
\* remove_pop on a VertexSet, each called within its asserted precondition,
\* contains(v) is true exactly for the vertices iterated, every member
\* appears once and set_indices[set_elements[k]] = k for every k < size
\* (so that after reset_full(n) no vertex from n on is contained)
C38_VertexSetWellFormed == pc = "vertex_set" => WellFormed(D)

\* the dominators of the live rows of the MDDStack, bottom row first
RowDominators == [k \in 1..Len(mdd_stack.stack) |-> mdd_stack.stack[k].dominator]

\* C39: in the MDD variants every remove_dominator(v) and
\* unexclude_dominator(v) finds the row of v on top of the stack (the
\* assertion of pop_row never fails), and at every entry of
\* FindDominatingSet there is one live row for each fixed vertex and no
\* other, so their number is total_fixed and at most n
C39_RowsLastInFirstOut ==
    solver.family = "MDD"
        => /\ "MDDStack::pop_row: dominator == result.dominator" \notin failed
           /\ AtEntry
                 => /\ Len(mdd_stack.stack) = total_fixed
                    /\ total_fixed <= G.n
                    /\ Range(RowDominators) = {v \in Verts(G) : fixed[v] # 0}

\* a call is entered with two rows or more after a sibling's rows have been
\* popped
C39_Witness ==
    /\ solver.family = "MDD"
    /\ AtEntry
    /\ Len(stack) >= 2
    /\ stack[Len(stack) - 1].q > 1
    /\ Len(mdd_stack.stack) >= 2
    /\ total_fixed = Len(mdd_stack.stack)
====
